---- MODULE Spec2Model ----
(***************************************************************************)
(* A model of the multi-agent question-answering pipeline of               *)
(* ollama-code-chat: the orchestrator (AgentManager.processUserQuery), the *)
(* five stage agents it sequences, the Verifier's scoring and improvement  *)
(* step, and the browser vector store (useVectorStore).                    *)
(*                                                                         *)
(* Spec       the orchestrator with one query in flight, interleaved with  *)
(*            updateModel / updateEmbeddingModel.                          *)
(* SpecStore  the vector store: ingestion and the two searches.            *)
(* SpecUploads    processFiles calls running side by side.                 *)
(* SpecEmbedding  generate_embedding tasks of the EmbeddingAgent.          *)
(* SpecBatch      batch_embed tasks of the EmbeddingAgent.                 *)
(* SpecQueries    generate_queries tasks of the EnhancedQueriesMakerAgent. *)
(* SpecText       chunkText and the scoring of one chunk on chosen inputs. *)
(* SpecFetch      fetch_context tasks of the ContextFetcherAgent.          *)
(* SpecCode       verify_response on the text of answers with code blocks. *)
(* SpecVerify     verify_response by what its five checks measure.         *)
(* SpecPlan       analyze_and_plan tasks of the ManagerAgent.              *)
(* SpecLoop       the loop of chunkText, one iteration per step, fair.     *)
(* SpecReingest   processFiles over versions of one file.                  *)
(* SpecOutage     the vector store while /api/embeddings is unavailable.   *)
(*                                                                         *)
(* Confidences are integers in units of 1/Scale; timestamps, prompts and   *)
(* free text are left out, texts that matter are small symbolic values.    *)
(***************************************************************************)
EXTENDS Integers, Sequences, FiniteSets, TLC

VARIABLES
  \* ---- AgentManager fields
  selectedModel,            \* this.selectedModel
  selectedEmbeddingModel,   \* this.selectedEmbeddingModel
  agents,                   \* this.agents: name -> model the instance was built with
  \* ---- one processUserQuery call
  pc,                       \* where the call is suspended
  query,                    \* its query argument
  uploadedFiles,            \* uploadedFiles.length
  agentTrace,               \* the agentTrace array
  instance,                 \* model of the stage instance whose execute() is awaited
  enhancedQueries,          \* the four stage results held in locals
  context,
  managementPlan,
  answer,
  verification,
  result,                   \* what the promise resolved with
  outcome,                  \* "pending" | "resolved" | "rejected"
  \* ---- history of the call, kept to state the properties
  startModel,               \* selectedModel when the call started
  startEmbeddingModel,      \* selectedEmbeddingModel when the call started
  stageCalls,               \* execute() invocations per stage
  generateCalls,            \* answer-generation requests (answer_question + improvement)
  improveCalls,             \* improvement requests
  improveReply,             \* how the improvement request ended
  qaEndpoint,               \* how the answer_question request ended
  thrown,                   \* the catch block was entered
  \* ---- the vector store
  docs,                     \* IndexedDB object store 'documents': id -> document
  ingest,                   \* the processFiles call in progress
  search,                   \* the search call in progress / its result
  uploads,                  \* processFiles calls running side by side
  \* ---- EmbeddingAgent, the query generator, and the text functions
  embed,                    \* the EmbeddingAgent task in progress / its result
  gen,                      \* the generate_queries task / its result
  lab,                      \* a text function applied to an input, with its result
  fetch                     \* the fetch_context task in progress / its result

pipelineVars == <<selectedModel, selectedEmbeddingModel, agents, pc, query,
                  uploadedFiles, agentTrace, instance, enhancedQueries, context,
                  managementPlan, answer, verification, result, outcome,
                  startModel, startEmbeddingModel, stageCalls, generateCalls,
                  improveCalls, improveReply, qaEndpoint, thrown>>
storeVars == <<docs, ingest, search>>
restVars == <<uploads, embed, gen, lab, fetch>>
vars == <<pipelineVars, storeVars, restVars>>

----------------------------------------------------------------------------
(* Bounds of the model *)

MaxFiles == 1            \* uploadedFiles.length ranges over 0..MaxFiles
MaxKeywords == 2         \* keywords of the query seen by the relevance check
MaxParts == 2            \* clauses of a multi-part query
MaxBlocks == 2           \* fenced code blocks in an answer
MaxTerms == 2            \* technical terms of the context
MaxContradictions == 1   \* contradiction indicators shared by answer and context
MaxFacts == 1            \* programming-fact patterns matched
MaxTech == 1             \* technical-accuracy pairs matched
MaxAntonyms == 1         \* antonym pairs straddling answer and context

----------------------------------------------------------------------------
(* Values *)

GenModels == {"llama3", "mistral"}
EmbModels == {"nomic-embed-text", "all-minilm"}
Queries == {"how does retry work", "fix the error"}
Texts == {"draft answer", "improved answer"}

Stages == <<"queries", "context", "manager", "qa", "verifier">>
StageSet == {Stages[i] : i \in 1..Len(Stages)}

Null == [isNull |-> TRUE]
NoResult == [kind |-> "none"]

Entry(a, s) == [agent |-> a, status |-> s]

Min2(a, b) == IF a < b THEN a ELSE b
Max2(a, b) == IF a > b THEN a ELSE b

Scale == 6 * 1000
Pct(n) == (n * Scale) \div 100
Frac(a, b) == (a * Scale) \div b

----------------------------------------------------------------------------
(* VerifierAgent: the five checks, as functions of what they measure on    *)
(* the (query, answer, context) they are given.                            *)

\* checkResponseRelevance: n query keywords, ov of them found in the answer,
\* aq: a question word of the query is answered, lenOK: 100 < length < 2000,
\* codeOK: the query asks for code and the answer has a code span.
CheckResponseRelevance(n, ov, aq, lenOK, codeOK) ==
  Min2( Frac(6 * ov, 10 * Max2(n, 1))
          + (IF aq THEN Pct(20) ELSE 0)
          + (IF lenOK THEN Pct(10) ELSE 0)
          + (IF codeOK THEN Pct(10) ELSE 0),
        Pct(95) )

\* checkFactualAccuracy: contra indicators shared with the context,
\* facts matched programming-fact patterns, tech matched technical pairs.
CheckFactualAccuracy(hasCtx, contra, facts, tech) ==
  LET base == Pct(70)
      ctx  == IF ~hasCtx THEN 0
              ELSE IF contra = 0 THEN Pct(10) ELSE 0 - contra * Pct(5)
      \* factScore = min(0.1*facts, 0.5) and accuracy = min(0.1*tech, 0.3),
      \* each added times 0.1
      conf == base + ctx + Min2(facts, 5) * Pct(1) + Min2(tech, 3) * Pct(1)
  IN  Max2(Min2(conf, Pct(95)), Pct(30))

\* checkCompleteness: the query splits into parts clauses, addressed of them
\* have a keyword in the answer.
CheckCompleteness(parts, addressed, long, example, transition) ==
  Min2( (IF parts > 1 THEN Frac(addressed, parts) ELSE Pct(80))
          + (IF long THEN Pct(10) ELSE 0)
          + (IF example THEN Pct(10) ELSE 0)
          + (IF transition THEN Pct(5) ELSE 0),
        Pct(95) )

\* checkCodeValidity: blocks fenced code blocks, valid of them with matching
\* braces and even quote counts, inline: some inline code span.
CheckCodeValidity(blocks, valid, inline) ==
  IF blocks = 0 /\ ~inline THEN Pct(80)
  ELSE Max2(IF blocks > 0 THEN Frac(valid, blocks) ELSE Pct(80), Pct(30))

\* checkConsistency: terms technical terms in the context, common of them in
\* the answer, opposed antonym pairs found across answer and context.
CheckConsistency(hasCtx, terms, common, opposed) ==
  IF ~hasCtx THEN Pct(80)
  ELSE Max2(Min2(Pct(50) + Frac(4 * common, 10 * Max2(terms, 1))
                   - opposed * Pct(10), Pct(95)), Pct(30))

\* A variant whose weights do not sum to one, used to test C24.
UnnormalisedConfidence(r, a, c, v, s) ==
  30 * r + 25 * a + 20 * c + 15 * v + 15 * s

\* calculateOverallConfidence, in units of 1/(100*Scale).
CalculateOverallConfidence(r, a, c, v, s) ==
  25 * r + 25 * a + 20 * c + 15 * v + 15 * s

NeedsImprovement(overall) == overall < 70 * Scale

\* A variant with a lower issue threshold, used to test C7.
CollectIssuesStrict(r, a, c, v, s) ==
  (IF r < Pct(50) THEN <<"Response may not fully address the question">> ELSE <<>>)
  \o (IF a < Pct(50) THEN <<"Some information may be inaccurate">> ELSE <<>>)
  \o (IF c < Pct(50) THEN <<"Response may be incomplete">> ELSE <<>>)
  \o (IF v < Pct(50) THEN <<"Code examples may have issues">> ELSE <<>>)
  \o (IF s < Pct(50) THEN <<"Response may be inconsistent with context">> ELSE <<>>)

CollectIssues(r, a, c, v, s) ==
  (IF r < Pct(70) THEN <<"Response may not fully address the question">> ELSE <<>>)
  \o (IF a < Pct(70) THEN <<"Some information may be inaccurate">> ELSE <<>>)
  \o (IF c < Pct(70) THEN <<"Response may be incomplete">> ELSE <<>>)
  \o (IF v < Pct(70) THEN <<"Code examples may have issues">> ELSE <<>>)
  \o (IF s < Pct(70) THEN <<"Response may be inconsistent with context">> ELSE <<>>)

\* What the checks can measure.  An empty answer has no keywords, code or terms.
RelevanceValues(empty) ==
  { CheckResponseRelevance(f.n, f.ov, f.aq, f.len, f.code) :
      f \in { g \in [n : 0..MaxKeywords, ov : 0..MaxKeywords, aq : BOOLEAN,
                     len : BOOLEAN, code : BOOLEAN] :
                g.ov <= g.n /\ (empty => g.ov = 0 /\ ~g.len /\ ~g.code) } }

AccuracyValues(hasCtx, empty) ==
  { CheckFactualAccuracy(hasCtx, f.contra, f.facts, f.tech) :
      f \in { g \in [contra : 0..MaxContradictions, facts : 0..MaxFacts,
                     tech : 0..MaxTech] :
                /\ (~hasCtx \/ empty) => g.contra = 0
                /\ empty => g.facts = 0 /\ g.tech = 0 } }

CompletenessValues(empty) ==
  { CheckCompleteness(f.parts, f.addressed, f.long, f.example, f.transition) :
      f \in { g \in [parts : 1..MaxParts, addressed : 0..MaxParts, long : BOOLEAN,
                     example : BOOLEAN, transition : BOOLEAN] :
                /\ g.addressed <= g.parts
                /\ empty => g.addressed = 0 /\ ~g.long /\ ~g.example /\ ~g.transition } }

CodeValidityValues(empty) ==
  { CheckCodeValidity(f.blocks, f.valid, f.inline) :
      f \in { g \in [blocks : 0..MaxBlocks, valid : 0..MaxBlocks, inline : BOOLEAN] :
                g.valid <= g.blocks /\ (empty => g.blocks = 0 /\ ~g.inline) } }

ConsistencyValues(hasCtx, empty) ==
  { CheckConsistency(hasCtx, f.terms, f.common, f.opposed) :
      f \in { g \in [terms : 0..MaxTerms, common : 0..MaxTerms,
                     opposed : 0..MaxAntonyms] :
                /\ g.common <= g.terms
                /\ ~hasCtx => g.terms = 0 /\ g.opposed = 0
                /\ empty => g.common = 0 /\ g.opposed = 0 } }

\* verifyResponse up to the decision to improve: what it will report.
VerifyChecks(r, a, c, v, s) ==
  [ overallLow |-> NeedsImprovement(CalculateOverallConfidence(r, a, c, v, s)),
    issues     |-> CollectIssues(r, a, c, v, s) ]

VerifyOutcomes ==
  [ hasCtx \in BOOLEAN, empty \in BOOLEAN |->
      { VerifyChecks(r, a, c, v, s) :
          r \in RelevanceValues(empty), a \in AccuracyValues(hasCtx, empty),
          c \in CompletenessValues(empty), v \in CodeValidityValues(empty),
          s \in ConsistencyValues(hasCtx, empty) } ]

\* A variant that takes the reply even when there is none, used to test C8.
FinalResponseDropsAnswer(response, improved) ==
  IF improved = Null THEN "" ELSE improved.text

\* finalResponse after the improvement request: a null or empty reply keeps
\* the answer.
FinalResponse(response, improved) ==
  IF improved = Null \/ improved = [isNull |-> FALSE, text |-> ""]
  THEN response ELSE improved.text


----------------------------------------------------------------------------
(* AgentManager *)

AgentNames == {"embedding", "metadata", "queries", "context", "manager", "qa",
               "verifier"}

\* initializeAgents: the model each registered instance is constructed with.
InitializeAgents(model, embeddingModel) ==
  [ a \in AgentNames |->
      IF a \in {"embedding", "context"} THEN embeddingModel
      ELSE IF a = "metadata" THEN "none" ELSE model ]

\* Variants of the stage order used to test the properties below.
StageAfterSwapped(s) ==
  CASE s = "queries" -> "manager" [] s = "manager" -> "context"
    [] s = "context" -> "qa" [] s = "qa" -> "verifier" [] OTHER -> "done"
StageAfterRetry(s) ==
  CASE s = "queries" -> "context" [] s = "context" -> "manager"
    [] s = "manager" -> "qa" [] s = "qa" -> "verifier" [] OTHER -> "qa"

\* The order of the steps in the try block of processUserQuery.
StageAfter(s) ==
  CASE s = "queries" -> "context" [] s = "context" -> "manager"
    [] s = "manager" -> "qa" [] s = "qa" -> "verifier" [] OTHER -> "done"

PendingResponse(d) == [done |-> FALSE, success |-> FALSE, data |-> d]
Response(ok, d) == [done |-> TRUE, success |-> ok, data |-> d]

\* Variants of the catch block used to test the properties below.
HandleErrorPartial(trace, q) ==
  [ kind |-> "value",
    response |-> [kind |-> "degraded", failedAt |-> "system",
                  llm |-> selectedModel, embedding |-> selectedEmbeddingModel],
    context |-> context.data, tools |-> <<>>, enhancedQueries |-> enhancedQueries.data,
    agentTrace |-> Append(trace, Entry("system", "error")) ]
CatchSettlesRethrow == "rejected"

\* The catch block: the error entry is pushed first, so the agent named in
\* the message is the one of the entry just pushed.
HandleError(trace, q) ==
  LET t == Append(trace, Entry("system", "error"))
  IN  [ kind |-> "value",
        response |-> [kind |-> "degraded", failedAt |-> t[Len(t)].agent,
                      llm |-> selectedModel, embedding |-> selectedEmbeddingModel],
        context |-> <<>>, tools |-> <<>>, enhancedQueries |-> <<q>>,
        agentTrace |-> t ]

\* The catch block returns, so the promise resolves.
CatchSettles == "resolved"

\* The return statement of the try block.
ReturnValue(trace, eq, cx, mp, an, vf) ==
  [ kind |-> "value",
    response |-> [kind |-> "answer",
                  text |-> IF vf.data.finalResponse # "" THEN vf.data.finalResponse
                           ELSE an.data],
    context |-> cx.data, tools |-> mp.data.tools, enhancedQueries |-> eq.data,
    agentTrace |-> trace ]

\* processUserQuery from the point where stage s has returned to the next
\* await (or to the return): push 'completed', then either start the next
\* stage or return.  Reading .tools/.plan/.finalResponse of a null data raises
\* a TypeError, which the catch block handles.
Resume(s, eq, cx, mp, an, vf) ==
  LET n  == StageAfter(s)
      t1 == Append(agentTrace, Entry(s, "completed"))
      t2 == IF n = "done" THEN t1 ELSE Append(t1, Entry(n, "starting"))
      throws == \/ n = "qa" /\ mp.data = Null
                \/ n = "done" /\ (vf.data = Null \/ mp.data = Null)
  IN  /\ enhancedQueries' = eq /\ context' = cx /\ managementPlan' = mp
      /\ answer' = an /\ verification' = vf
      /\ IF throws
         THEN /\ result' = HandleError(t2, query)
              /\ agentTrace' = result'.agentTrace
              /\ outcome' = CatchSettles
              /\ thrown' = TRUE
              /\ pc' = "done"
              /\ UNCHANGED <<instance, stageCalls>>
         ELSE IF n = "done"
         THEN /\ result' = ReturnValue(t2, eq, cx, mp, an, vf)
              /\ agentTrace' = t2
              /\ outcome' = "resolved"
              /\ pc' = "done"
              /\ UNCHANGED <<instance, stageCalls, thrown>>
         ELSE /\ agentTrace' = t2
              /\ instance' = agents[n]
              /\ stageCalls' = [stageCalls EXCEPT ![n] = @ + 1]
              /\ pc' = n
              /\ UNCHANGED <<result, outcome, thrown>>

\* processUserQuery up to its first await.
StartQuery(q, nfiles) ==
  /\ pc \in {"idle", "done"}
  /\ query' = q
  /\ uploadedFiles' = nfiles
  /\ agentTrace' = <<Entry("queries", "starting")>>
  /\ instance' = agents["queries"]
  /\ stageCalls' = [st \in StageSet |-> IF st = "queries" THEN 1 ELSE 0]
  /\ pc' = "queries"
  /\ enhancedQueries' = PendingResponse(<<>>)
  /\ context' = PendingResponse(<<>>)
  /\ managementPlan' = PendingResponse(Null)
  /\ answer' = PendingResponse("")
  /\ verification' = PendingResponse(Null)
  /\ result' = NoResult
  /\ outcome' = "pending"
  /\ thrown' = FALSE
  /\ startModel' = selectedModel
  /\ startEmbeddingModel' = selectedEmbeddingModel
  /\ generateCalls' = 0
  /\ improveCalls' = 0
  /\ improveReply' = "none"
  /\ qaEndpoint' = "none"
  /\ UNCHANGED <<selectedModel, selectedEmbeddingModel, agents>>

\* updateModel: the four instances that depend on the generation model are
\* replaced in the registry.
UpdateModel(m) ==
  /\ selectedModel' = m
  /\ agents' = [ a \in AgentNames |->
                   IF a \in {"queries", "manager", "qa", "verifier"} THEN m
                   ELSE agents[a] ]
  /\ UNCHANGED <<selectedEmbeddingModel, pc, query, uploadedFiles, agentTrace,
                 instance, enhancedQueries, context, managementPlan, answer,
                 verification, result, outcome, startModel, startEmbeddingModel,
                 stageCalls, generateCalls, improveCalls, improveReply,
                 qaEndpoint, thrown>>

\* updateEmbeddingModel
UpdateEmbeddingModel(e) ==
  /\ selectedEmbeddingModel' = e
  /\ agents' = [ a \in AgentNames |->
                   IF a \in {"embedding", "context"} THEN e ELSE agents[a] ]
  /\ UNCHANGED <<selectedModel, pc, query, uploadedFiles, agentTrace,
                 instance, enhancedQueries, context, managementPlan, answer,
                 verification, result, outcome, startModel, startEmbeddingModel,
                 stageCalls, generateCalls, improveCalls, improveReply,
                 qaEndpoint, thrown>>


----------------------------------------------------------------------------
(* The stage agents, as the responses their execute() can return *)

\* The catch of each agent's execute(): success false and the agent's own
\* empty data.
ExecuteCatch(s) ==
  Response(FALSE, CASE s = "queries" -> <<>>
                    [] s = "context" -> <<>>
                    [] s = "qa" -> ""
                    [] OTHER -> Null)

\* EnhancedQueriesMakerAgent.generateQueries: the original query first, then
\* what the generators added.
GenerateQueries(q) ==
  { Response(TRUE, <<q>>), Response(TRUE, <<q, "retry logic implementation">>) }

ContextChunks ==
  << [filename |-> "api.ts", content |-> "function retryRequest"],
     [filename |-> "util.ts", content |-> "const delay"] >>

\* ContextFetcherAgent.fetchContext: no files, no search; otherwise the
\* processed chunks of the search, or the failure its catch reports.
FetchContext(queries, nfiles) ==
  IF nfiles = 0 THEN { Response(TRUE, <<>>) }
  ELSE { Response(FALSE, <<>>) }
       \cup { Response(TRUE, SubSeq(ContextChunks, 1, k)) :
                k \in 0..(IF queries = <<>> THEN 0 ELSE Len(ContextChunks)) }

\* ManagerAgent.analyzeQuery: the intent patterns each query matches.
DetectedTypes(q) ==
  IF q = "how does retry work" THEN <<"explanation">> ELSE <<"debugging">>

\* ManagerAgent.selectToolsForQuery
SelectToolsForQuery(types) ==
  LET has(t) == \E i \in 1..Len(types) : types[i] = t
  IN  (IF has("explanation") \/ has("analysis") THEN <<"code_analyzer">> ELSE <<>>)
      \o (IF has("debugging") THEN <<"debug_assistant">> ELSE <<>>)
      \o (IF has("search") THEN <<"pattern_search">> ELSE <<>>)
      \o (IF has("optimization") THEN <<"refactoring_assistant">> ELSE <<>>)
      \o (IF has("documentation") THEN <<"documentation_helper">> ELSE <<>>)
      \o (IF has("implementation") THEN <<"implementation_assistant">> ELSE <<>>)
      \o (IF has("testing") THEN <<"testing_assistant">> ELSE <<>>)

\* ManagerAgent.analyzeAndPlan
AnalyzeAndPlan(q) ==
  Response(TRUE, [isNull |-> FALSE, tools |-> SelectToolsForQuery(DetectedTypes(q))])

\* QuestionAnsweringAgent.answerQuestion: the generation request ends ok,
\* with an empty reply, or in error; after a reply, the sources are read off
\* the context entries with String.match, which the ContextChunk objects
\* handed over by the orchestrator do not have.
AnswerQuestion(ctx, endpoint) ==
  IF endpoint = "error" THEN Response(FALSE, "")
  ELSE IF ctx # <<>> THEN Response(FALSE, "")
  ELSE Response(TRUE, IF endpoint = "ok" THEN "draft answer" ELSE "")

EndpointOutcomes == {"ok", "empty", "error"}

\* VerifierAgent.improveResponse: the reply text, or null on an error, a
\* non-OK status or an empty reply.
ImproveResponse(reply) ==
  IF reply \in {"error", "empty"} THEN Null ELSE [isNull |-> FALSE, text |-> reply]

othersQ == <<selectedModel, selectedEmbeddingModel, agents, query, uploadedFiles,
             startModel, startEmbeddingModel>>

QueriesReturn ==
  /\ pc = "queries"
  /\ \E r \in GenerateQueries(query) \cup {ExecuteCatch("queries")} :
       Resume("queries", r, context, managementPlan, answer, verification)
  /\ UNCHANGED <<othersQ, generateCalls, improveCalls, improveReply, qaEndpoint>>

ContextReturn ==
  /\ pc = "context"
  /\ \E r \in FetchContext(enhancedQueries.data, uploadedFiles) :
       Resume("context", enhancedQueries, r, managementPlan, answer, verification)
  /\ UNCHANGED <<othersQ, generateCalls, improveCalls, improveReply, qaEndpoint>>

ManagerReturn ==
  /\ pc = "manager"
  /\ \E r \in {AnalyzeAndPlan(query), ExecuteCatch("manager")} :
       Resume("manager", enhancedQueries, context, r, answer, verification)
  /\ UNCHANGED <<othersQ, generateCalls, improveCalls, improveReply, qaEndpoint>>

QAReturn ==
  /\ pc = "qa"
  /\ \E e \in EndpointOutcomes :
       /\ qaEndpoint' = e
       /\ generateCalls' = generateCalls + 1
       /\ Resume("qa", enhancedQueries, context, managementPlan,
                 AnswerQuestion(context.data, e), verification)
  /\ UNCHANGED <<othersQ, improveCalls, improveReply>>

\* verifyResponse up to its await of improveResponse, or to its return when
\* no improvement is attempted; or the catch of execute().
VerifierChecks ==
  /\ pc = "verifier"
  /\ \/ /\ Resume("verifier", enhancedQueries, context, managementPlan, answer,
                  ExecuteCatch("verifier"))
        /\ UNCHANGED <<generateCalls, improveCalls>>
     \/ \E v \in VerifyOutcomes[context.data # <<>>, answer.data = ""] :
          LET d == [isNull |-> FALSE, finalResponse |-> answer.data,
                    improved |-> FALSE, overallLow |-> v.overallLow,
                    issues |-> v.issues]
          IN  IF v.overallLow /\ Len(v.issues) > 0
              THEN /\ verification' = PendingResponse(d)
                   /\ improveCalls' = improveCalls + 1
                   /\ generateCalls' = generateCalls + 1
                   /\ pc' = "improving"
                   /\ UNCHANGED <<agentTrace, instance, enhancedQueries, context,
                                  managementPlan, answer, result, outcome,
                                  stageCalls, thrown>>
              ELSE /\ Resume("verifier", enhancedQueries, context, managementPlan,
                             answer, Response(TRUE, d))
                   /\ UNCHANGED <<generateCalls, improveCalls>>
  /\ UNCHANGED <<othersQ, improveReply, qaEndpoint>>

\* The improvement request returns; verifyResponse returns.
ImproveReturn ==
  /\ pc = "improving"
  /\ \E reply \in Texts \cup {"empty", "error"} :
       LET final == FinalResponse(answer.data, ImproveResponse(reply))
           d == [verification.data EXCEPT !.finalResponse = final,
                                          !.improved = (final # answer.data)]
       IN  /\ improveReply' = reply
           /\ Resume("verifier", enhancedQueries, context, managementPlan, answer,
                     Response(TRUE, d))
  /\ UNCHANGED <<othersQ, generateCalls, improveCalls, qaEndpoint>>

----------------------------------------------------------------------------
(* The vector store (useVectorStore).  Strings the store computes on --     *)
(* file names, contents, queries, model names, ids -- are sequences of      *)
(* characters, so that slicing, includes() and the template strings are     *)
(* computed and not assumed.                                                *)

MaxIngests == 2          \* processFiles calls in one behaviour
MaxTopK == 2             \* topK ranges over 1..MaxTopK
ChunkSize == 8           \* chunkSize (1000 in the source), in characters
Overlap == 2             \* overlap (200 in the source), in characters
FallbackDim == 2         \* length of the fallback embedding (384 in the source)

LowerLetters ==
  << "a", "b", "c", "d", "e", "f", "g", "h", "i", "j", "k", "l", "m",
     "n", "o", "p", "q", "r", "s", "t", "u", "v", "w", "x", "y", "z" >>
UpperLetters ==
  << "A", "B", "C", "D", "E", "F", "G", "H", "I", "J", "K", "L", "M",
     "N", "O", "P", "Q", "R", "S", "T", "U", "V", "W", "X", "Y", "Z" >>
DigitChars == << "0", "1", "2", "3", "4", "5", "6", "7", "8", "9" >>

IndexIn(seq, c) == CHOOSE i \in 1..Len(seq) : seq[i] = c
IsIn(seq, c) == \E i \in 1..Len(seq) : seq[i] = c

\* String.prototype.toLowerCase
ToLowerChar(c) == IF IsIn(UpperLetters, c) THEN LowerLetters[IndexIn(UpperLetters, c)] ELSE c
ToLowerCase(s) == [i \in 1..Len(s) |-> ToLowerChar(s[i])]

\* String.prototype.includes
Includes(s, t) == \E i \in 0..(Len(s) - Len(t)) : SubSeq(s, i + 1, i + Len(t)) = t

\* the decimal digits a template string prints for a non-negative integer
RECURSIVE DigitsOf(_)
DigitsOf(n) ==
  IF n < 10 THEN << DigitChars[n + 1] >>
  ELSE DigitsOf(n \div 10) \o << DigitChars[(n % 10) + 1] >>

\* UTF-16 code units of the characters in use, for the key order of the store
CharCode(c) ==
  IF IsIn(LowerLetters, c) THEN 96 + IndexIn(LowerLetters, c)
  ELSE IF IsIn(UpperLetters, c) THEN 64 + IndexIn(UpperLetters, c)
  ELSE IF IsIn(DigitChars, c) THEN 47 + IndexIn(DigitChars, c)
  ELSE IF c = "\n" THEN 10
  ELSE IF c = " " THEN 32
  ELSE IF c = "$" THEN 36
  ELSE IF c = "-" THEN 45
  ELSE IF c = "." THEN 46
  ELSE IF c = "/" THEN 47
  ELSE 95  \* "_"

RECURSIVE KeyLess(_, _)
KeyLess(a, b) ==
  IF a = <<>> THEN b # <<>>
  ELSE IF b = <<>> THEN FALSE
  ELSE IF CharCode(a[1]) # CharCode(b[1]) THEN CharCode(a[1]) < CharCode(b[1])
  ELSE KeyLess(Tail(a), Tail(b))

IsSpace(c) == c \in {" ", "\n"}
IsIdentStart(c) == IsIn(LowerLetters, c) \/ IsIn(UpperLetters, c) \/ c \in {"_", "$"}
IsIdentChar(c) == IsIdentStart(c) \/ IsIn(DigitChars, c)
IsWordChar(c) == IsIn(LowerLetters, c) \/ IsIn(UpperLetters, c) \/ IsIn(DigitChars, c) \/ c = "_"

StartsWithAt(text, pos, w) ==
  pos + Len(w) - 1 <= Len(text) /\ SubSeq(text, pos, pos + Len(w) - 1) = w

\* number of consecutive characters of a class from pos on
CharIs(class, c) ==
  IF class = "space" THEN IsSpace(c)
  ELSE IF class = "ident" THEN IsIdentChar(c)
  ELSE IsWordChar(c)

RECURSIVE Run(_, _, _)
Run(text, pos, class) ==
  IF pos <= Len(text) /\ CharIs(class, text[pos]) THEN 1 + Run(text, pos + 1, class) ELSE 0

FunctionWords ==
  << <<"f","u","n","c","t","i","o","n">>, <<"d","e","f">>, <<"c","o","n","s","t">>,
     <<"l","e","t">>, <<"v","a","r">> >>
ClassWords ==
  << <<"c","l","a","s","s">>, <<"i","n","t","e","r","f","a","c","e">>,
     <<"t","y","p","e">> >>
KeywordWords ==
  { <<"i","m","p","o","r","t">>, <<"e","x","p","o","r","t">>, <<"a","s","y","n","c">>,
    <<"a","w","a","i","t">>, <<"r","e","t","u","r","n">>, <<"t","h","r","o","w">>,
    <<"c","a","t","c","h">>, <<"t","r","y">>, <<"i","f">>, <<"e","l","s","e">>,
    <<"f","o","r">>, <<"w","h","i","l","e">>, <<"s","w","i","t","c","h">>,
    <<"c","a","s","e">>, <<"b","r","e","a","k">>,
    <<"c","o","n","t","i","n","u","e">> }

\* a match of /(?:w1|w2|..)\s+([a-zA-Z_$][a-zA-Z0-9_$]*)/ starting at pos:
\* [found, name, next], next being the position after the match
DeclAt(text, pos, words) ==
  LET hits == { k \in 1..Len(words) : StartsWithAt(text, pos, words[k]) }
  IN  IF hits = {} THEN [found |-> FALSE, name |-> <<>>, next |-> pos + 1]
      ELSE LET w == words[CHOOSE k \in hits : \A j \in hits : k <= j]
               sp == Run(text, pos + Len(w), "space")
               at == pos + Len(w) + sp
           IN  IF sp >= 1 /\ at <= Len(text) /\ IsIdentStart(text[at])
                 THEN LET n == Run(text, at, "ident")
                      IN  [found |-> TRUE, name |-> SubSeq(text, at, at + n - 1),
                           next |-> at + n]
                 ELSE [found |-> FALSE, name |-> <<>>, next |-> pos + 1]

\* all matches of the global regex, left to right
RECURSIVE ScanDecls(_, _, _)
ScanDecls(text, pos, words) ==
  IF pos > Len(text) THEN <<>>
  ELSE LET m == DeclAt(text, pos, words)
       IN  (IF m.found THEN << m.name >> ELSE <<>>) \o ScanDecls(text, m.next, words)

\* the matches of /\b(import|export|...)\b/g, each kept once
RECURSIVE ScanKeywords(_, _, _)
ScanKeywords(text, pos, seen) ==
  IF pos > Len(text) THEN seen
  ELSE IF ~IsWordChar(text[pos]) THEN ScanKeywords(text, pos + 1, seen)
  ELSE LET n == Run(text, pos, "word")
           w == SubSeq(text, pos, pos + n - 1)
       IN  ScanKeywords(text, pos + n,
             IF w \in KeywordWords /\ ~IsIn(seen, w) THEN Append(seen, w) ELSE seen)

ExtractMetadata(content) ==
  [ functionNames |-> ScanDecls(content, 1, FunctionWords),
    classNames |-> ScanDecls(content, 1, ClassWords),
    keywords |-> ScanKeywords(content, 1, <<>>) ]

\* text.split('\n').length
CountLines(text) == 1 + Cardinality({ i \in 1..Len(text) : text[i] = "\n" })

\* A variant of the loop that starts each window at the end of the one
\* before, used to test C18.
RECURSIVE ChunkWithoutOverlap(_, _, _, _)
ChunkWithoutOverlap(text, start, chunkSize, overlap) ==
  IF ~(start < Len(text)) THEN <<>>
  ELSE LET end == Min2(start + chunkSize, Len(text))
           chunk == [ content |-> SubSeq(text, start + 1, end),
                      metadata |-> [ functionNames |-> <<>>, classNames |-> <<>>,
                                     keywords |-> <<>>,
                                     lineNumbers |-> [start |-> 1, end |-> 1] ] ]
       IN  << chunk >> \o ChunkWithoutOverlap(text, end, chunkSize, overlap)

\* the loop of chunkText(text, filename, chunkSize, overlap) from start on
RECURSIVE ChunkWith(_, _, _, _)
ChunkWith(text, start, chunkSize, overlap) ==
  IF ~(start < Len(text)) THEN <<>>
  ELSE LET end == Min2(start + chunkSize, Len(text))
           chunkContent == SubSeq(text, start + 1, end)
           startLine == CountLines(SubSeq(text, 1, start))
           endLine == startLine + CountLines(chunkContent) - 1
           chunk == [ content |-> chunkContent,
                      metadata |-> [ functionNames |-> ExtractMetadata(chunkContent).functionNames,
                                     classNames |-> ExtractMetadata(chunkContent).classNames,
                                     keywords |-> ExtractMetadata(chunkContent).keywords,
                                     lineNumbers |-> [start |-> startLine, end |-> endLine] ] ]
       IN  << chunk >> \o (IF end = Len(text) THEN <<>>
                            ELSE ChunkWith(text, end - overlap, chunkSize, overlap))

ChunkFrom(text, start) == ChunkWith(text, start, ChunkSize, Overlap)

ChunkText(text) == ChunkFrom(text, 0)

\* ---- embeddings

\* NaN, as 0/0 and arithmetic on undefined produce it; every comparison with
\* it is false
NaN == 0 - 1000 * Scale
IsNaN(x) == x = NaN
Gt(x, y) == ~IsNaN(x) /\ ~IsNaN(y) /\ x > y

\* vectors an /api/embeddings reply can carry
EndpointVectors == { <<3, 4, 0>> }
\* Array(384).fill(0).map(() => Math.random() - 0.5): one of its directions
FallbackVectors == { [i \in 1..FallbackDim |-> IF i = 1 THEN 1 ELSE 0] }
\* what generateEmbedding can resolve with: the reply's vector, or the fallback
GenerateEmbedding == EndpointVectors \cup FallbackVectors

RECURSIVE SumTo(_, _)
SumTo(f, n) == IF n = 0 THEN 0 ELSE f[n] + SumTo(f, n - 1)

ISqrt(n) == CHOOSE k \in 0..n : k * k <= n /\ n < (k + 1) * (k + 1)
Magnitude(a) == ISqrt(SumTo([i \in 1..Len(a) |-> a[i] * a[i]], Len(a)))

\* dot / (magA * magB); b[i] is undefined past the end of b, and 0/0 is NaN
CosineSimilarity(a, b) ==
  IF Len(a) > Len(b) THEN NaN
  ELSE LET dot == SumTo([i \in 1..Len(a) |-> a[i] * b[i]], Len(a))
           mag == Magnitude(a) * Magnitude(b)
       IN  IF mag = 0 THEN NaN ELSE (dot * Scale) \div mag

\* ---- documents

StoreModels == { <<"e", "5">>, <<"b", "g", "e">> }

GoTs == [ name |-> <<"G", "o", ".", "t", "s">>,
          text |-> <<"d", "e", "f", " ", "G", "o", "\n", "i", "f", " ", "a">> ]
IoTs == [ name |-> <<"i", "o", ".", "t", "s">>,
          text |-> <<"t", "y", "p", "e", " ", "T">> ]
FileLists == { <<IoTs>>, <<GoTs>> }

QGo == <<"g", "o">>
QIfT == <<"i", "f", " ", "t">>
StoreQueries == { QGo, QIfT }
QueryLists == { <<>>, <<QGo>>, <<QGo, QIfT>> }

\* A variant of the key without the model, used to test C12.
DocIdWithoutModel(name, i, embeddingModel) == name \o <<"-">> \o DigitsOf(i)

\* `${file.name}-${i}-${embeddingModel}`
DocId(name, i, embeddingModel) == name \o <<"-">> \o DigitsOf(i) \o <<"-">> \o embeddingModel

\* file.name.split('.').pop() || 'unknown'
RECURSIVE AfterLastDot(_)
AfterLastDot(name) ==
  IF ~IsIn(name, ".") THEN name
  ELSE AfterLastDot(SubSeq(name, IndexIn(name, ".") + 1, Len(name)))
FileType(name) ==
  IF AfterLastDot(name) = <<>> THEN <<"u", "n", "k", "n", "o", "w", "n">>
  ELSE AfterLastDot(name)

\* name.replace(/\.[^/.]+$/, "")
StripExtension(name) ==
  LET ext == AfterLastDot(name)
  IN  IF IsIn(name, ".") /\ ext # <<>> /\ ~IsIn(ext, "/")
        THEN SubSeq(name, 1, Len(name) - Len(ext) - 1)
        ELSE name

MakeDoc(name, chunks, i, embeddingModel, embedding) ==
  [ id |-> DocId(name, i, embeddingModel),
    content |-> chunks[i + 1].content,
    embedding |-> embedding,
    filename |-> name,
    embeddingModel |-> embeddingModel,
    metadata |-> [ fileType |-> FileType(name),
                   chunkIndex |-> i,
                   totalChunks |-> Len(chunks),
                   functionNames |-> chunks[i + 1].metadata.functionNames,
                   classNames |-> chunks[i + 1].metadata.classNames,
                   keywords |-> chunks[i + 1].metadata.keywords,
                   lineNumbers |-> chunks[i + 1].metadata.lineNumbers ] ]

\* The object store is held as the sequence of its records in key order.
\* database.put('documents', doc): a record with the same id is replaced
Put(store, doc) ==
  LET before == SelectSeq(store, LAMBDA d : KeyLess(d.id, doc.id))
      after == SelectSeq(store, LAMBDA d : KeyLess(doc.id, d.id))
  IN  before \o << doc >> \o after

\* database.getAll('documents'): the records in key order
GetAll(store) == store

\* A variant that keeps every document, used to test C10.
CompatibleDocsAnyModel(allDocs, embeddingModel) == allDocs

\* allDocs.filter(doc => doc.embeddingModel === embeddingModel)
CompatibleDocs(allDocs, embeddingModel) ==
  SelectSeq(allDocs, LAMBDA doc : doc.embeddingModel = embeddingModel)

\* ---- processFiles

IdleIngest(runs) ==
  [ pc |-> "idle", embeddingModel |-> <<>>, files |-> <<>>, chunks |-> <<>>, i |-> 0,
    runs |-> runs ]

\* the next file that has a chunk, or the end of the call
RECURSIVE NextFile(_, _, _)
NextFile(files, embeddingModel, runs) ==
  IF files = <<>> THEN IdleIngest(runs)
  ELSE IF ChunkText(Head(files).text) = <<>> THEN NextFile(Tail(files), embeddingModel, runs)
  ELSE [ pc |-> "embedding", embeddingModel |-> embeddingModel, files |-> files,
         chunks |-> ChunkText(Head(files).text), i |-> 0, runs |-> runs ]

\* processFiles(files, embeddingModel) up to its first generateEmbedding
ProcessFiles(files, embeddingModel) ==
  /\ ingest.pc = "idle"
  /\ ingest.runs < MaxIngests
  /\ ingest' = NextFile(files, embeddingModel, ingest.runs + 1)
  /\ UNCHANGED <<docs, search>>

\* generateEmbedding resolves with `embedding`; the chunk is stored and the
\* loop goes on to the next chunk or file
StoreChunk(embedding) ==
  /\ ingest.pc = "embedding"
  /\ docs' = Put(docs, MakeDoc(Head(ingest.files).name, ingest.chunks, ingest.i,
                               ingest.embeddingModel, embedding))
  /\ ingest' = IF ingest.i + 1 < Len(ingest.chunks)
                 THEN [ingest EXCEPT !.i = @ + 1]
                 ELSE NextFile(Tail(ingest.files), ingest.embeddingModel, ingest.runs)
  /\ UNCHANGED search

\* ---- searchSimilar and searchWithEnhancedQueries

IdleSearch ==
  [ pc |-> "idle", kind |-> "none", embeddingModel |-> <<>>, queries |-> <<>>,
    topK |-> 0, qi |-> 0, allDocs |-> {}, compatibleDocs |-> <<>>,
    uniqueResults |-> <<>>, sortedResults |-> <<>>, result |-> <<>>,
    scored |-> {}, scores |-> {} ]

Plus(x, y) == IF IsNaN(x) THEN NaN ELSE x + y

Matches(names, queryLower) ==
  \E k \in 1..Len(names) : Includes(queryLower, ToLowerCase(names[k]))

RelevanceBoost(doc, q) ==
  LET queryLower == ToLowerCase(q)
  IN  (IF Matches(doc.metadata.functionNames, queryLower) THEN Pct(20) ELSE 0)
      + (IF Matches(doc.metadata.classNames, queryLower) THEN Pct(20) ELSE 0)
      + (IF Matches(doc.metadata.keywords, queryLower) THEN Pct(10) ELSE 0)
      + (IF \/ Includes(ToLowerCase(doc.filename), queryLower)
            \/ Includes(queryLower, StripExtension(ToLowerCase(doc.filename)))
           THEN Pct(15) ELSE 0)

\* the items of one query of searchWithEnhancedQueries
BoostedSimilarities(compatibleDocs, q, queryEmbedding) ==
  [ k \in 1..Len(compatibleDocs) |->
      LET doc == compatibleDocs[k]
      IN  [ content |-> doc.content,
            similarity |-> Plus(CosineSimilarity(queryEmbedding, doc.embedding),
                                RelevanceBoost(doc, q)),
            filename |-> doc.filename,
            id |-> doc.id,
            metadata |-> doc.metadata,
            relevanceScore |-> RelevanceBoost(doc, q) ] ]

\* the items of searchSimilar
Similarities(compatibleDocs, queryEmbedding) ==
  [ k \in 1..Len(compatibleDocs) |->
      LET doc == compatibleDocs[k]
      IN  [ id |-> doc.id,
            content |-> doc.content,
            similarity |-> CosineSimilarity(queryEmbedding, doc.embedding),
            filename |-> doc.filename,
            metadata |-> doc.metadata ] ]

\* A variant in which the latest score always replaces the stored one, used
\* to test C9.
ReplacesAlways(item, existing) == TRUE

\* item.similarity > existing.maxSimilarity
Replaces(item, existing) == Gt(item.similarity, existing.maxSimilarity)

\* uniqueResults after one item; the Map keeps the position of a key it has
AddResult(unique, item) ==
  LET value == [ id |-> item.id, content |-> item.content, filename |-> item.filename,
                 maxSimilarity |-> item.similarity, metadata |-> item.metadata,
                 relevanceScore |-> item.relevanceScore ]
      at == { k \in 1..Len(unique) : unique[k].id = item.id }
  IN  IF ~Gt(item.similarity, Pct(10)) THEN unique
      ELSE IF at = {} THEN Append(unique, value)
      ELSE LET k == CHOOSE j \in at : TRUE
           IN  IF Replaces(item, unique[k]) THEN [unique EXCEPT ![k] = value] ELSE unique

RECURSIVE AddResults(_, _)
AddResults(unique, items) ==
  IF items = <<>> THEN unique ELSE AddResults(AddResult(unique, Head(items)), Tail(items))

\* A variant of the sort that leaves the items as they are, used to test C21.
KeepOrder(items, key) == items

\* Array.prototype.sort with (a, b) => b[key] - a[key]: stable, descending
RECURSIVE SortDescending(_, _)
SortDescending(items, key) ==
  IF items = <<>> THEN <<>>
  ELSE LET n == Len(items)
           front == SortDescending(SubSeq(items, 1, n - 1), key)
           x == items[n]
           p == Cardinality({ k \in 1..(n - 1) : front[k][key] >= x[key] })
       IN  SubSeq(front, 1, p) \o << x >> \o SubSeq(front, p + 1, n - 1)

Orderings(items) ==
  { [k \in 1..Len(items) |-> items[p[k]]] :
      p \in { f \in [1..Len(items) -> 1..Len(items)] :
                \A a, b \in 1..Len(items) : a # b => f[a] # f[b] } }

\* the orders sort can leave the items in: with a NaN among the scores the
\* comparator is inconsistent and the order is implementation-defined
SortOutcomes(items) ==
  IF \E k \in 1..Len(items) : IsNaN(items[k].similarity)
    THEN Orderings(items)
    ELSE { SortDescending(items, "similarity") }

\* .slice(0, topK)
Slice(items, topK) == SubSeq(items, 1, Min2(topK, Len(items)))

\* `[${filename}:${start}-${end}]\n${content}`
Format(item) ==
  <<"[">> \o item.filename \o <<":">> \o DigitsOf(item.metadata.lineNumbers.start)
    \o <<"-">> \o DigitsOf(item.metadata.lineNumbers.end) \o <<"]", "\n">> \o item.content

FormatAll(items) == [ k \in 1..Len(items) |-> Format(items[k]) ]

\* id and embedding model of the documents of a list, kept as history of
\* what a search read (allDocs) and what it compared (scored)
Compared(documents) ==
  { [id |-> documents[k].id, embeddingModel |-> documents[k].embeddingModel] :
      k \in 1..Len(documents) }

\* searchSimilar(query, topK, embeddingModel) up to generateEmbedding
SearchSimilar(q, topK, embeddingModel) ==
  /\ search.pc \in {"idle", "done"}
  /\ search' = [ IdleSearch EXCEPT !.pc = "embedding", !.kind = "similar",
                                   !.embeddingModel = embeddingModel,
                                   !.queries = << q >>, !.topK = topK, !.qi = 1 ]
  /\ UNCHANGED <<docs, ingest>>

\* generateEmbedding resolves; the documents are read, filtered, scored,
\* sorted and the call returns
SimilarReturn(queryEmbedding) ==
  /\ search.pc = "embedding" /\ search.kind = "similar"
  /\ LET allDocs == GetAll(docs)
         compatibleDocs == CompatibleDocs(allDocs, search.embeddingModel)
         similarities == Similarities(compatibleDocs, queryEmbedding)
     IN  IF compatibleDocs = <<>>
           THEN search' = [ search EXCEPT !.pc = "done", !.allDocs = Compared(allDocs) ]
           ELSE \E sorted \in SortOutcomes(similarities) :
                  search' = [ search EXCEPT
                    !.pc = "done", !.allDocs = Compared(allDocs),
                    !.compatibleDocs = compatibleDocs,
                    !.sortedResults = Slice(sorted, search.topK),
                    !.result = FormatAll(Slice(sorted, search.topK)),
                    !.scored = Compared(compatibleDocs),
                    !.scores = { [id |-> similarities[k].id, qi |-> 1,
                                  similarity |-> similarities[k].similarity] :
                                 k \in 1..Len(similarities) } ]
  /\ UNCHANGED <<docs, ingest>>

\* sort, slice and format of searchWithEnhancedQueries
Finish(s) ==
  LET sortedResults == Slice(SortDescending(s.uniqueResults, "maxSimilarity"), s.topK)
  IN  [ s EXCEPT !.pc = "done", !.sortedResults = sortedResults,
                 !.result = FormatAll(sortedResults) ]

\* searchWithEnhancedQueries(queries, topK, embeddingModel) up to the first
\* generateEmbedding, or to its return when there is nothing to search
SearchWithEnhancedQueries(queries, topK, embeddingModel) ==
  /\ search.pc \in {"idle", "done"}
  /\ LET allDocs == GetAll(docs)
         compatibleDocs == CompatibleDocs(allDocs, embeddingModel)
         started == [ IdleSearch EXCEPT !.pc = "embedding", !.kind = "enhanced",
                                        !.embeddingModel = embeddingModel,
                                        !.queries = queries, !.topK = topK, !.qi = 1,
                                        !.allDocs = Compared(allDocs) ]
     IN  search' = IF compatibleDocs = <<>> THEN [ started EXCEPT !.pc = "done" ]
                   ELSE IF queries = <<>>
                     THEN Finish([ started EXCEPT !.compatibleDocs = compatibleDocs ])
                   ELSE [ started EXCEPT !.compatibleDocs = compatibleDocs ]
  /\ UNCHANGED <<docs, ingest>>

\* generateEmbedding of query qi resolves; its items are merged into
\* uniqueResults and the loop goes on or the call returns
EnhancedReturn(queryEmbedding) ==
  /\ search.pc = "embedding" /\ search.kind = "enhanced"
  /\ LET items == BoostedSimilarities(search.compatibleDocs, search.queries[search.qi],
                                      queryEmbedding)
         merged == [ search EXCEPT
           !.uniqueResults = AddResults(@, items),
           !.scored = @ \cup Compared(search.compatibleDocs),
           !.scores = @ \cup { [id |-> items[k].id, qi |-> search.qi,
                                similarity |-> items[k].similarity] :
                               k \in 1..Len(items) } ]
     IN  search' = IF search.qi < Len(search.queries)
                     THEN [ merged EXCEPT !.qi = @ + 1 ]
                     ELSE Finish(merged)
  /\ UNCHANGED <<docs, ingest>>

\* ---- processFiles calls running side by side

MaxUploads == 2          \* processFiles calls in flight together

IdleUploads == [ calls |-> [p \in 1..MaxUploads |-> IdleIngest(0)], written |-> {} ]

\* two files and two model names whose keys meet: both names carry a
\* supported extension, both model names are legal Ollama names
ATs == [ name |-> <<"a", ".", "t", "s">>, text |-> <<"i", "f">> ]
ATs0XTs == [ name |-> <<"a", ".", "t", "s", "-", "0", "-", "x", ".", "t", "s">>,
             text |-> <<"t", "r", "y">> ]
UploadLists == { <<ATs>>, <<ATs0XTs>> }
UploadModels == { <<"m">>, <<"x", ".", "t", "s", "-", "0", "-", "m">> }

\* processFiles(files, embeddingModel) of call p, up to its first generateEmbedding
UploadFiles(p, files, embeddingModel) ==
  /\ uploads.calls[p].pc = "idle"
  /\ uploads.calls[p].runs = 0
  /\ uploads' = [ uploads EXCEPT !.calls[p] = NextFile(files, embeddingModel, 1) ]
  /\ UNCHANGED docs

\* generateEmbedding of call p resolves; its chunk is stored
UploadChunk(p, embedding) ==
  LET call == uploads.calls[p]
      doc == MakeDoc(Head(call.files).name, call.chunks, call.i, call.embeddingModel,
                     embedding)
  IN  /\ call.pc = "embedding"
      /\ docs' = Put(docs, doc)
      /\ uploads' = [ uploads EXCEPT
           !.calls[p] = IF call.i + 1 < Len(call.chunks)
                          THEN [call EXCEPT !.i = @ + 1]
                          ELSE NextFile(Tail(call.files), call.embeddingModel, call.runs),
           !.written = @ \cup { [ filename |-> doc.filename,
                                  chunkIndex |-> doc.metadata.chunkIndex,
                                  embeddingModel |-> doc.embeddingModel ] } ]

----------------------------------------------------------------------------
(* EmbeddingAgent *)

\* dimensions of generateFallbackEmbedding
FallbackDimensions == 384
\* generate_embedding tasks followed in one behaviour
MaxEmbedCalls == 3
\* the largest batchSize tried
MaxBatchSize == 2

AgentTexts == { <<"a", "b">>, <<"b", "a">> }
AgentModels == { "nomic-embed-text", "all-minilm" }
\* vectors the agent's /api/embeddings replies can carry
AgentVectors == { <<3, 4, 0>>, <<0, 4, 3>> }
TextLists == { <<>>, << <<"a", "b">> >>, << <<"a", "b">>, <<"b", "a">> >>,
               << <<"b", "a">>, <<"a", "b">>, <<"b", "a">> >> }

IdleEmbed ==
  [ pc |-> "idle", type |-> "none", text |-> <<>>, model |-> "none", texts |-> <<>>,
    batchSize |-> 0, i |-> 0, inflight |-> {}, batchResults |-> {},
    embeddings |-> <<>>, errors |-> <<>>, response |-> [ kind |-> "none" ],
    served |-> <<>>, failed |-> {}, answers |-> {}, order |-> <<>> ]

\* let seed = 0; seed += text.charCodeAt(i) * (i + 1), over the first n characters
RECURSIVE TextSeed(_, _)
TextSeed(text, n) ==
  IF n = 0 THEN 0 ELSE TextSeed(text, n - 1) + CharCode(text[n]) * n

\* seed = (seed * 9301 + 49297) % 233280; 9301 = 93 * 100 + 1 keeps the
\* product within 32 bits
NextSeed(seed) == ((((seed * 93) % 233280) * 100) + seed + 49297) % 233280

\* the n seeds that follow seed, half of them and then the other half
RECURSIVE SeedsFrom(_, _)
SeedsFrom(seed, n) ==
  IF n = 0 THEN <<>>
  ELSE IF n = 1 THEN << NextSeed(seed) >>
  ELSE LET half == n \div 2
           front == SeedsFrom(seed, half)
       IN  front \o SeedsFrom(front[half], n - half)

\* A variant of the fallback that draws its seed from the calls served so
\* far instead of the text, used to test C15.
GenerateUnseededEmbedding(text) == SeedsFrom(Len(embed.served), FallbackDimensions)

\* generateFallbackEmbedding(text): element i is (seed_i / 233280 - 0.5)
\* divided by the magnitude of the whole vector; the vector is carried as
\* its seeds, of which every element is a fixed function
GenerateFallbackEmbedding(text) ==
  SeedsFrom(TextSeed(text, Len(text)), FallbackDimensions)

\* what generateEmbedding resolves with: the reply's vector, or in the catch
\* the fallback, both with success: true
EmbeddingResponse(text, model, ok, vector) ==
  IF ok
    THEN [ success |-> TRUE,
           data |-> [ embedding |-> vector, dimensions |-> Len(vector), model |-> model ] ]
    ELSE [ success |-> TRUE,
           data |-> [ embedding |-> GenerateFallbackEmbedding(text),
                      dimensions |-> Len(GenerateFallbackEmbedding(text)),
                      model |-> "fallback" ] ]

\* execute({type: 'generate_embedding', data: {text, model}}) up to the fetch
ExecuteGenerateEmbedding(text, model) ==
  /\ embed.pc \in {"idle", "done"}
  /\ Len(embed.served) < MaxEmbedCalls
  /\ embed' = [ IdleEmbed EXCEPT !.pc = "fetching", !.type = "generate_embedding",
                                 !.text = text, !.model = model,
                                 !.served = embed.served ]

\* the fetch settles (ok: a reply with a vector; otherwise a rejection or a
\* non-ok status) and execute returns generateEmbedding's response
GenerateEmbeddingReturn(ok, vector) ==
  /\ embed.pc = "fetching"
  /\ LET response == EmbeddingResponse(embed.text, embed.model, ok, vector)
     IN  embed' = [ embed EXCEPT
           !.pc = "done", !.response = response,
           !.served = Append(@, [ text |-> embed.text, model |-> embed.model, ok |-> ok,
                                  embedding |-> response.data.embedding ]) ]

\* an array slot never assigned
Hole == << "empty" >>

\* embeddings[index] = embedding, index counted from 0
AssignAt(embeddings, index, embedding) ==
  [ j \in 1..Max2(Len(embeddings), index + 1) |->
      IF j = index + 1 THEN embedding
      ELSE IF j <= Len(embeddings) THEN embeddings[j] ELSE Hole ]

\* batchResults.forEach(result => embeddings[result.index] = result.embedding)
RECURSIVE StoreResults(_, _)
StoreResults(embeddings, batchResults) ==
  IF batchResults = {} THEN embeddings
  ELSE LET first == CHOOSE r \in batchResults :
                      \A o \in batchResults : r.index <= o.index
       IN  StoreResults(AssignAt(embeddings, first.index, first.embedding),
                        batchResults \ { first })

\* texts.slice(i, i + batchSize), as the indices of the calls it issues
Batch(texts, i, batchSize) == { k \in 0..(Len(texts) - 1) : i <= k /\ k < i + batchSize }

\* A variant of the join that resumes as soon as one call of the batch has
\* settled, used to test C17.
AnySettled(batch, batchResults) == \E k \in batch : \E r \in batchResults : r.index = k

\* await Promise.all(batchPromises) resumes: every call of the batch settled
AllSettled(batch, batchResults) == \A k \in batch : \E r \in batchResults : r.index = k

\* the return value of batchEmbed
BatchResponse(texts, embeddings, errors) ==
  [ success |-> 2 * Len(errors) < Len(texts),
    data |-> [ embeddings |-> embeddings, totalProcessed |-> Len(texts),
               successCount |-> Len(texts) - Len(errors), errorCount |-> Len(errors) ],
    error |-> IF Len(errors) > 0 THEN "embeddings failed" ELSE "undefined" ]

\* execute({type: 'batch_embed', data: {texts, model, batchSize}}): the calls
\* of the first batch are issued, or the loop is skipped for no texts
BatchEmbed(texts, model, batchSize) ==
  /\ embed.pc \in {"idle", "done"}
  /\ embed' = IF Len(texts) = 0
                THEN [ IdleEmbed EXCEPT !.pc = "done", !.type = "batch_embed",
                                        !.model = model, !.batchSize = batchSize,
                                        !.response = BatchResponse(texts, <<>>, <<>>) ]
                ELSE [ IdleEmbed EXCEPT !.pc = "batch", !.type = "batch_embed",
                                        !.texts = texts, !.model = model,
                                        !.batchSize = batchSize,
                                        !.inflight = Batch(texts, 0, batchSize) ]

\* the generateEmbedding call for texts[index] settles; it never rejects for
\* a string, so the catch around it (errors.push) is not entered. When
\* Promise.all resumes, the results are stored and the loop waits or returns
BatchCallSettles(index, ok, vector) ==
  /\ embed.pc = "batch" /\ index \in embed.inflight
  /\ LET reply == EmbeddingResponse(embed.texts[index + 1], embed.model, ok, vector)
         item == [ index |-> index, embedding |-> reply.data.embedding,
                   success |-> reply.success ]
         batchResults == embed.batchResults \cup { item }
         settled == [ embed EXCEPT
           !.inflight = @ \ { index }, !.batchResults = batchResults,
           !.failed = IF ok THEN @ ELSE @ \cup { index },
           !.answers = @ \cup { [ index |-> index, embedding |-> item.embedding ] },
           !.order = Append(@, index) ]
         embeddings == StoreResults(embed.embeddings, batchResults)
     IN  embed' =
           IF ~AllSettled(Batch(embed.texts, embed.i, embed.batchSize), batchResults)
             THEN settled
           ELSE IF embed.i + embed.batchSize < Len(embed.texts)
             THEN [ settled EXCEPT !.pc = "delay", !.embeddings = embeddings ]
           ELSE [ settled EXCEPT
                    !.pc = "done", !.embeddings = embeddings,
                    !.response = BatchResponse(embed.texts, embeddings, embed.errors) ]

\* the 100 ms between batches are over: i += batchSize and the calls of the
\* next batch are issued
BatchDelay ==
  /\ embed.pc = "delay"
  /\ embed' = [ embed EXCEPT
       !.pc = "batch", !.i = @ + embed.batchSize, !.batchResults = {},
       !.inflight = @ \cup Batch(embed.texts, embed.i + embed.batchSize, embed.batchSize) ]

----------------------------------------------------------------------------
(* EnhancedQueriesMakerAgent.generateQueries *)

\* the longest conversation history passed to generateQueries
MaxHistory == 1

IdleGen ==
  [ pc |-> "idle", query |-> <<>>, conversationHistory |-> <<>>, pending |-> {},
    semantic |-> <<>>, technical |-> <<>>, contextual |-> <<>>, structural |-> <<>>,
    path |-> "none", response |-> [ kind |-> "none" ] ]

\* ---- strings

FirstIndex(s, c) == CHOOSE i \in 1..Len(s) : s[i] = c /\ \A j \in 1..(i - 1) : s[j] # c

\* s.split(c) for a single character c
RECURSIVE SplitOn(_, _)
SplitOn(s, c) ==
  IF ~IsIn(s, c) THEN << s >>
  ELSE << SubSeq(s, 1, FirstIndex(s, c) - 1) >>
         \o SplitOn(SubSeq(s, FirstIndex(s, c) + 1, Len(s)), c)

RECURSIVE TrimStart(_)
TrimStart(s) == IF s # <<>> /\ IsSpace(s[1]) THEN TrimStart(Tail(s)) ELSE s
RECURSIVE TrimEnd(_)
TrimEnd(s) ==
  IF s # <<>> /\ IsSpace(s[Len(s)]) THEN TrimEnd(SubSeq(s, 1, Len(s) - 1)) ELSE s
\* String.prototype.trim
Trim(s) == TrimEnd(TrimStart(s))

RECURSIVE LeadingDigits(_, _)
LeadingDigits(s, pos) ==
  IF pos <= Len(s) /\ IsIn(DigitChars, s[pos]) THEN 1 + LeadingDigits(s, pos + 1) ELSE 0

\* line.replace(/^\d+\.\s*/, '')
StripNumbering(line) ==
  LET d == LeadingDigits(line, 1)
  IN  IF d >= 1 /\ d < Len(line) /\ line[d + 1] = "."
        THEN SubSeq(line, d + 2 + Run(line, d + 2, "space"), Len(line))
        ELSE line

\* s.replace(new RegExp(word, 'gi'), by), word in lower case
RECURSIVE ReplaceAll(_, _, _)
ReplaceAll(s, word, by) ==
  IF Len(s) < Len(word) THEN s
  ELSE IF ToLowerCase(SubSeq(s, 1, Len(word))) = word
    THEN by \o ReplaceAll(SubSeq(s, Len(word) + 1, Len(s)), word, by)
  ELSE << s[1] >> \o ReplaceAll(Tail(s), word, by)

\* the pieces of s.split(/\s+/) that are not empty (the empty ones, before a
\* leading or after a trailing blank, fail every length filter applied)
SplitBlanks(s) ==
  LET IsWord(w) == w # <<>>
  IN  SelectSeq(SplitOn([i \in 1..Len(s) |-> IF IsSpace(s[i]) THEN " " ELSE s[i]], " "),
                IsWord)

\* A variant of the deduplication that keeps every element, used to test C19.
KeepAll(items) == items

\* [...new Set(items)]: the first occurrence of each element, in order
RECURSIVE Unique(_)
Unique(items) ==
  IF items = <<>> THEN <<>>
  ELSE LET front == Unique(SubSeq(items, 1, Len(items) - 1))
           last == items[Len(items)]
       IN  IF IsIn(front, last) THEN front ELSE Append(front, last)

\* ---- the generators

\* response.split('\n').map(strip numbering, trim).filter(...).slice(0, 4)
ParseQueryResponse(response) ==
  LET lines == SplitOn(response, "\n")
      cleaned == [ k \in 1..Len(lines) |-> Trim(StripNumbering(lines[k])) ]
      Kept(line) == Len(line) > 0 /\ line[1] # "#"
  IN  Slice(SelectSeq(cleaned, Kept), 4)

Synonyms ==
  << [ word |-> <<"f", "u", "n", "c", "t", "i", "o", "n">>,
       syns |-> << <<"m", "e", "t", "h", "o", "d">>,
                  <<"p", "r", "o", "c", "e", "d", "u", "r", "e">>,
                  <<"r", "o", "u", "t", "i", "n", "e">> >> ],
     [ word |-> <<"e", "r", "r", "o", "r">>,
       syns |-> << <<"e", "x", "c", "e", "p", "t", "i", "o", "n">>,
                  <<"b", "u", "g">>,
                  <<"i", "s", "s", "u", "e">>,
                  <<"p", "r", "o", "b", "l", "e", "m">> >> ],
     [ word |-> <<"c", "r", "e", "a", "t", "e">>,
       syns |-> << <<"b", "u", "i", "l", "d">>,
                  <<"m", "a", "k", "e">>,
                  <<"i", "m", "p", "l", "e", "m", "e", "n", "t">>,
                  <<"g", "e", "n", "e", "r", "a", "t", "e">> >> ],
     [ word |-> <<"f", "i", "x">>,
       syns |-> << <<"r", "e", "p", "a", "i", "r">>,
                  <<"r", "e", "s", "o", "l", "v", "e">>,
                  <<"s", "o", "l", "v", "e">>,
                  <<"d", "e", "b", "u", "g">> >> ],
     [ word |-> <<"o", "p", "t", "i", "m", "i", "z", "e">>,
       syns |-> << <<"i", "m", "p", "r", "o", "v", "e">>,
                  <<"e", "n", "h", "a", "n", "c", "e">>,
                  <<"r", "e", "f", "a", "c", "t", "o", "r">> >> ] >>

RECURSIVE SynonymQueries(_, _)
SynonymQueries(q, k) ==
  IF k > Len(Synonyms) THEN <<>>
  ELSE (IF Includes(ToLowerCase(q), Synonyms[k].word)
          THEN [ j \in 1..Len(Synonyms[k].syns) |->
                   ReplaceAll(q, Synonyms[k].word, Synonyms[k].syns[j]) ]
          ELSE <<>>) \o SynonymQueries(q, k + 1)

GenerateFallbackSemanticQueries(q) == Slice(SynonymQueries(q, 1), 3)

TechnicalTerms ==
  << [ tech |-> <<"r", "e", "a", "c", "t">>,
       terms |-> << <<"c", "o", "m", "p", "o", "n", "e", "n", "t">>,
                  <<"j", "s", "x">>,
                  <<"p", "r", "o", "p", "s">>,
                  <<"s", "t", "a", "t", "e">>,
                  <<"h", "o", "o", "k">> >> ],
     [ tech |-> <<"j", "a", "v", "a", "s", "c", "r", "i", "p", "t">>,
       terms |-> << <<"f", "u", "n", "c", "t", "i", "o", "n">>,
                  <<"a", "s", "y", "n", "c">>,
                  <<"p", "r", "o", "m", "i", "s", "e">>,
                  <<"c", "a", "l", "l", "b", "a", "c", "k">> >> ],
     [ tech |-> <<"t", "y", "p", "e", "s", "c", "r", "i", "p", "t">>,
       terms |-> << <<"i", "n", "t", "e", "r", "f", "a", "c", "e">>,
                  <<"t", "y", "p", "e">>,
                  <<"g", "e", "n", "e", "r", "i", "c">>,
                  <<"d", "e", "c", "o", "r", "a", "t", "o", "r">> >> ],
     [ tech |-> <<"c", "s", "s">>,
       terms |-> << <<"s", "t", "y", "l", "e">>,
                  <<"c", "l", "a", "s", "s">>,
                  <<"s", "e", "l", "e", "c", "t", "o", "r">>,
                  <<"p", "r", "o", "p", "e", "r", "t", "y">> >> ],
     [ tech |-> <<"a", "p", "i">>,
       terms |-> << <<"e", "n", "d", "p", "o", "i", "n", "t">>,
                  <<"r", "e", "q", "u", "e", "s", "t">>,
                  <<"r", "e", "s", "p", "o", "n", "s", "e">>,
                  <<"h", "t", "t", "p">> >> ],
     [ tech |-> <<"d", "a", "t", "a", "b", "a", "s", "e">>,
       terms |-> << <<"q", "u", "e", "r", "y">>,
                  <<"t", "a", "b", "l", "e">>,
                  <<"s", "c", "h", "e", "m", "a">>,
                  <<"m", "i", "g", "r", "a", "t", "i", "o", "n">> >> ] >>

RECURSIVE TermQueries(_, _)
TermQueries(q, k) ==
  IF k > Len(TechnicalTerms) THEN <<>>
  ELSE (IF Includes(ToLowerCase(q), TechnicalTerms[k].tech)
          THEN Slice(TechnicalTerms[k].terms, 2) ELSE <<>>) \o TermQueries(q, k + 1)

GenerateFallbackTechnicalQueries(q) == Slice(TermQueries(q, 1), 3)

\* [query.replace(/[?!.]/g, ''), ...query.split(' ').filter(long).slice(0, 2)]
GenerateStandaloneQueries(q) ==
  LET Plain(c) == c \notin { "?", "!", "." }
      Long(word) == Len(word) > 4
  IN  << SelectSeq(q, Plain) >> \o Slice(SelectSeq(SplitOn(q, " "), Long), 2)

GenerateStructuralQueries(q) ==
  LET queryLower == ToLowerCase(q)
      Has(word) == Includes(queryLower, word)
  IN  Slice(
        (IF Has(<<"f", "i", "l", "e">>) \/ Has(<<"m", "o", "d", "u", "l", "e">>)
           THEN << <<"f", "i", "l", "e", " ", "s", "t", "r", "u", "c", "t", "u", "r", "e">>,
                <<"m", "o", "d", "u", "l", "e", " ", "o", "r", "g", "a", "n", "i", "z", "a", "t", "i", "o", "n">>,
                <<"i", "m", "p", "o", "r", "t", " ", "e", "x", "p", "o", "r", "t">> >>
           ELSE <<>>)
        \o (IF Has(<<"a", "r", "c", "h", "i", "t", "e", "c", "t", "u", "r", "e">>) \/ Has(<<"s", "t", "r", "u", "c", "t", "u", "r", "e">>)
           THEN << <<"c", "o", "m", "p", "o", "n", "e", "n", "t", " ", "a", "r", "c", "h", "i", "t", "e", "c", "t", "u", "r", "e">>,
                <<"s", "y", "s", "t", "e", "m", " ", "d", "e", "s", "i", "g", "n">>,
                <<"f", "o", "l", "d", "e", "r", " ", "s", "t", "r", "u", "c", "t", "u", "r", "e">> >>
           ELSE <<>>)
        \o (IF Has(<<"c", "o", "n", "f", "i", "g">>) \/ Has(<<"s", "e", "t", "u", "p">>)
           THEN << <<"c", "o", "n", "f", "i", "g", "u", "r", "a", "t", "i", "o", "n", " ", "f", "i", "l", "e", "s">>,
                <<"e", "n", "v", "i", "r", "o", "n", "m", "e", "n", "t", " ", "s", "e", "t", "u", "p">>,
                <<"b", "u", "i", "l", "d", " ", "c", "o", "n", "f", "i", "g">> >>
           ELSE <<>>)
        \o (IF Has(<<"t", "e", "s", "t">>)
           THEN << <<"t", "e", "s", "t", " ", "f", "i", "l", "e", "s">>,
                <<"s", "p", "e", "c", " ", "f", "i", "l", "e", "s">>,
                <<"t", "e", "s", "t", "i", "n", "g", " ", "f", "r", "a", "m", "e", "w", "o", "r", "k">> >>
           ELSE <<>>), 3)

StopWords ==
  { <<"t", "h", "e">>,
    <<"a">>,
    <<"a", "n">>,
    <<"a", "n", "d">>,
    <<"o", "r">>,
    <<"b", "u", "t">>,
    <<"i", "n">>,
    <<"o", "n">>,
    <<"a", "t">>,
    <<"t", "o">>,
    <<"f", "o", "r">>,
    <<"o", "f">>,
    <<"w", "i", "t", "h">>,
    <<"b", "y">>,
    <<"i", "s">>,
    <<"a", "r", "e">>,
    <<"w", "a", "s">>,
    <<"w", "e", "r", "e">> }

QuestionWords ==
  { <<"h", "o", "w">>,
    <<"w", "h", "a", "t">>,
    <<"w", "h", "y">>,
    <<"w", "h", "e", "n">>,
    <<"w", "h", "e", "r", "e">>,
    <<"w", "h", "i", "c", "h">>,
    <<"w", "h", "o">> }

\* query.replace(/\b(how|what|why|when|where|which|who)\b/gi, '')
RECURSIVE DropQuestionWords(_, _)
DropQuestionWords(s, pos) ==
  IF pos > Len(s) THEN <<>>
  ELSE IF ~IsWordChar(s[pos]) THEN << s[pos] >> \o DropQuestionWords(s, pos + 1)
  ELSE LET n == Run(s, pos, "word")
           word == SubSeq(s, pos, pos + n - 1)
       IN  (IF ToLowerCase(word) \in QuestionWords THEN <<>> ELSE word)
             \o DropQuestionWords(s, pos + n)

GenerateFallbackQueries(q) ==
  LET queryWords == SplitBlanks(ToLowerCase(q))
      Significant(word) == Len(word) > 3 /\ word \notin StopWords
      significantWords == SelectSeq(queryWords, Significant)
      cleanQuery == Trim(DropQuestionWords(q, 1))
      queries ==
        << q >> \o Slice(significantWords, 3)
        \o (IF cleanQuery # q THEN << cleanQuery >> ELSE <<>>)
        \o (IF Includes(ToLowerCase(q), <<"e", "r", "r", "o", "r">>)
              THEN << <<"e", "x", "c", "e", "p", "t", "i", "o", "n", " ", "h", "a", "n", "d", "l", "i", "n", "g">>,
                   <<"t", "r", "y", " ", "c", "a", "t", "c", "h">>,
                   <<"e", "r", "r", "o", "r", " ", "m", "e", "s", "s", "a", "g", "e">> >>
              ELSE <<>>)
        \o (IF Includes(ToLowerCase(q), <<"f", "u", "n", "c", "t", "i", "o", "n">>)
              THEN << <<"m", "e", "t", "h", "o", "d", " ", "d", "e", "f", "i", "n", "i", "t", "i", "o", "n">>,
                   <<"f", "u", "n", "c", "t", "i", "o", "n", " ", "i", "m", "p", "l", "e", "m", "e", "n", "t", "a", "t", "i", "o", "n">> >>
              ELSE <<>>)
  IN  Slice(Unique(queries), 6)

\* ---- generateQueries

GenQueries ==
  { <<"f", "i", "x", " ", "a", "p", "i", " ", "t", "e", "s", "t">>,
    <<"H", "o", "w", " ", "i", "s", " ", "t", "h", "e", " ", "e", "r", "r", "o", "r", " ", "f", "u", "n", "c", "t", "i", "o", "n", "?">> }

\* texts /api/generate can answer with
ModelResponses ==
  { <<>>,
    <<"1", ".", " ", "f", "i", "x", " ", "a", "p", "i", " ", "t", "e", "s", "t", "\n", "#", " ", "h", "i", "n", "t", "\n", "\n", "2", ".", " ", " ", "r", "e", "p", "a", "i", "r", " ", "a", "p", "i", " ", "t", "e", "s", "t", " ", "\n", "r", "e", "t", "r", "y">>,
    <<"c", "a", "c", "h", "e", "\n", "q", "u", "e", "u", "e", "\n", "c", "a", "c", "h", "e", "\n", "l", "o", "c", "k", "\n", "m", "u", "t", "e", "x">> }

Message == [ isNull |-> FALSE, role |-> "user", content |-> "hi" ]
NullMessage == [ isNull |-> TRUE ]
Histories ==
  UNION { [ 1..n -> { Message, NullMessage } ] : n \in 0..MaxHistory }

\* msg.role of an entry that is null or undefined throws
Throws(conversationHistory) ==
  \E k \in 1..Len(conversationHistory) : conversationHistory[k].isNull

\* the success return of generateQueries
QueriesResponse(q, semantic, technical, contextual, structural) ==
  LET allQueries == semantic \o technical \o contextual \o structural
      uniqueQueries == Slice(Unique(<< q >> \o allQueries), 8)
  IN  [ success |-> TRUE, data |-> uniqueQueries ]

\* generateQueries({query, conversationHistory}) up to the language model
\* calls of the generators; with an entry that throws while a prompt is
\* built, Promise.all rejects and the catch returns the rule-based list
GenerateQueriesCall(q, conversationHistory) ==
  /\ gen.pc \in {"idle", "done"}
  /\ gen' =
       IF Throws(conversationHistory)
         THEN [ IdleGen EXCEPT
                  !.pc = "done", !.query = q,
                  !.conversationHistory = conversationHistory, !.path = "catch",
                  !.response = [ success |-> TRUE,
                                 data |-> GenerateFallbackQueries(q) ] ]
         ELSE [ IdleGen EXCEPT
                  !.pc = "calling", !.query = q,
                  !.conversationHistory = conversationHistory,
                  !.pending = IF Len(conversationHistory) = 0
                                THEN { "semantic", "technical" }
                                ELSE { "semantic", "technical", "contextual" },
                  !.contextual = IF Len(conversationHistory) = 0
                                   THEN GenerateStandaloneQueries(q) ELSE <<>>,
                  !.structural = GenerateStructuralQueries(q) ]

\* what a generator resolves with when its callLanguageModel settles
GeneratorResult(generator, q, ok, response) ==
  IF ok THEN ParseQueryResponse(response)
  ELSE IF generator = "semantic" THEN GenerateFallbackSemanticQueries(q)
  ELSE IF generator = "technical" THEN GenerateFallbackTechnicalQueries(q)
  ELSE GenerateStandaloneQueries(q)

\* the language model call of one generator settles; when it was the last
\* one, Promise.all resumes and generateQueries returns
LanguageModelSettles(generator, ok, response) ==
  /\ gen.pc = "calling" /\ generator \in gen.pending
  /\ LET settled == [ gen EXCEPT
           ![generator] = GeneratorResult(generator, gen.query, ok, response),
           !.pending = @ \ { generator } ]
     IN  gen' = IF settled.pending # {} THEN settled
                ELSE [ settled EXCEPT
                         !.pc = "done", !.path = "try",
                         !.response = QueriesResponse(gen.query, settled.semantic,
                                                      settled.technical, settled.contextual,
                                                      settled.structural) ]

----------------------------------------------------------------------------
(* Text functions on their own *)

\* the longest text and the largest window chunkText is applied to
MaxTextLen == 10
MaxChunkSize == 4

IdleLab == [ op |-> "none" ]

LabText == <<"a", "b", "\n", "c", "d", "e", "f", "g", "h", "i">>

\* chunkText(text, filename, chunkSize, overlap)
ChunkTextCall(text, chunkSize, overlap) ==
  lab' = [ op |-> "chunkText", text |-> text, chunkSize |-> chunkSize,
           overlap |-> overlap, chunks |-> ChunkWith(text, 0, chunkSize, overlap) ]

ApiTs == [ name |-> <<"a","p","i",".","t","s">>,
           text |-> <<"f","u","n","c","t","i","o","n"," ","r","e","t","r","y",
                      "R","e","q","u","e","s","t","("," ",")"," ","{","}">> ]
RetryTs == [ name |-> <<"r","e","t","r","y",".","t","s">>,
             text |-> <<"c","o","n","s","t"," ","r","e","t","r","y","R","e","q",
                        "u","e","s","t"," ","=","\n","t","r","y"," ","{","}">> ]
LabFiles == { ApiTs, RetryTs }

QRetryLogic ==
  <<"h","o","w"," ","d","o","e","s"," ","t","h","e"," ","r","e","t","r","y"," ",
    "l","o","g","i","c"," ","w","o","r","k">>
QRetryRequest ==
  <<"w","h","e","r","e"," ","i","s"," ","r","e","t","r","y","R","e","q","u","e","s","t">>
LabQueries == { QRetryLogic, QRetryRequest }
LabVectors == { <<3, 4, 0>>, <<0, 4, 3>>, <<4, 3, 0>> }

\* the first chunk of a file as processFiles stores it (chunkSize and overlap
\* at their defaults), scored for one query as searchWithEnhancedQueries
\* scores it
ScoreChunk(file, q, embedding, queryEmbedding) ==
  LET chunks == ChunkWith(file.text, 0, 1000, 200)
      doc == MakeDoc(file.name, chunks, 0, <<"e", "5">>, embedding)
      item == BoostedSimilarities(<< doc >>, q, queryEmbedding)[1]
  IN  lab' = [ op |-> "score", query |-> q, filename |-> doc.filename,
               functionNames |-> doc.metadata.functionNames,
               keywords |-> doc.metadata.keywords,
               cosine |-> CosineSimilarity(queryEmbedding, doc.embedding),
               similarity |-> item.similarity,
               relevanceScore |-> item.relevanceScore ]

----------------------------------------------------------------------------
(* ContextFetcherAgent.fetchContext *)

IdleFetch ==
  [ pc |-> "idle", queries |-> <<>>, uploadedFiles |-> 0, searchCalls |-> 0,
    index |-> <<>>, queryEmbedding |-> <<>>,
    rawChunks |-> <<>>, response |-> [ kind |-> "none" ] ]

\* s.split(/\s+/): the pieces between runs of blanks; a leading or trailing
\* run leaves an empty piece at that end
RECURSIVE CollapseBlanks(_)
CollapseBlanks(s) ==
  IF s = <<>> THEN <<>>
  ELSE IF IsSpace(s[1])
    THEN << " " >> \o CollapseBlanks(SubSeq(s, 1 + Run(s, 1, "space"), Len(s)))
  ELSE << s[1] >> \o CollapseBlanks(Tail(s))

SplitWhitespace(s) == SplitOn(CollapseBlanks(s), " ")

\* items.join(sep)
RECURSIVE Join(_, _)
Join(items, sep) ==
  IF items = <<>> THEN <<>>
  ELSE IF Len(items) = 1 THEN items[1]
  ELSE items[1] \o sep \o Join(Tail(items), sep)

\* parseInt of a run of digits
RECURSIVE ParseInt(_)
ParseInt(digits) ==
  IF digits = <<>> THEN 0
  ELSE 10 * ParseInt(SubSeq(digits, 1, Len(digits) - 1))
         + (IndexIn(DigitChars, digits[Len(digits)]) - 1)

\* :(\d+)-(\d+)\] at position c of line
RangeAt(line, c) ==
  LET d1 == LeadingDigits(line, c + 1)
      dash == c + 1 + d1
      d2 == LeadingDigits(line, dash + 1)
      close == dash + 1 + d2
  IN  IF c <= Len(line) /\ line[c] = ":" /\ d1 >= 1 /\ dash <= Len(line)
         /\ line[dash] = "-" /\ d2 >= 1 /\ close <= Len(line) /\ line[close] = "]"
        THEN [ found |-> TRUE, start |-> ParseInt(SubSeq(line, c + 1, dash - 1)),
               end |-> ParseInt(SubSeq(line, dash + 1, close - 1)) ]
        ELSE [ found |-> FALSE, start |-> 1, end |-> 1 ]

\* lines[0].match(/\[(.*?):(\d+)-(\d+)\]/): the leftmost "[" from which the
\* pattern matches, with the shortest text up to the colon
FilenameMatch(line) ==
  LET Colons(p) == { c \in (p + 1)..Len(line) : RangeAt(line, c).found }
      opens == { p \in 1..Len(line) : line[p] = "[" /\ Colons(p) # {} }
  IN  IF opens = {} THEN [ found |-> FALSE, filename |-> <<>>, start |-> 1, end |-> 1 ]
      ELSE LET p == CHOOSE a \in opens : \A b \in opens : a <= b
               c == CHOOSE a \in Colons(p) : \A b \in Colons(p) : a <= b
           IN  [ found |-> TRUE, filename |-> SubSeq(line, p + 1, c - 1),
                 start |-> RangeAt(line, c).start, end |-> RangeAt(line, c).end ]

\* calculateRelevanceScore({content, filename}, query), in units of 1/Scale
CalculateRelevanceScore(content, filename, q) ==
  LET queryLower == ToLowerCase(q)
      contentLower == ToLowerCase(content)
      filenameLower == ToLowerCase(filename)
      queryWords == SplitWhitespace(queryLower)
      contentWords == SplitWhitespace(contentLower)
      Matching(word) ==
        \E k \in 1..Len(contentWords) :
          Includes(contentWords[k], word) \/ Includes(word, contentWords[k])
      matchingWords == SelectSeq(queryWords, Matching)
      Has(t) == Includes(contentLower, t)
      score ==
        Pct(50) + (Len(matchingWords) * Pct(30)) \div Len(queryWords)
        + (IF \E k \in 1..Len(queryWords) : Includes(filenameLower, queryWords[k])
             THEN Pct(20) ELSE 0)
        + (IF Has(<<"f", "u", "n", "c", "t", "i", "o", "n">>) \/ Has(<<"c", "l", "a", "s", "s">>) \/ Has(<<"c", "o", "n", "s", "t">>) THEN Pct(10) ELSE 0)
        + (IF (Includes(queryLower, <<"e", "r", "r", "o", "r">>) \/ Includes(queryLower, <<"b", "u", "g">>))
              /\ (Has(<<"t", "r", "y">>) \/ Has(<<"c", "a", "t", "c", "h">>) \/ Has(<<"e", "r", "r", "o", "r">>))
             THEN Pct(20) ELSE 0)
  IN  Min2(score, Scale)

\* processContextChunks(rawChunks, queries): one ContextChunk per raw chunk,
\* in the order of rawChunks
ProcessContextChunks(rawChunks, queries, embeddingModel) ==
  [ index \in 1..Len(rawChunks) |->
      LET chunk == rawChunks[index]
          lines == SplitOn(chunk, "\n")
          filenameMatch == FilenameMatch(lines[1])
          content == IF filenameMatch.found THEN Join(Tail(lines), << "\n" >>) ELSE chunk
          filename == IF filenameMatch.found THEN filenameMatch.filename ELSE <<"u", "n", "k", "n", "o", "w", "n">>
      IN  [ content |-> content,
            filename |-> filename,
            lineNumbers |-> [ start |-> filenameMatch.start, end |-> filenameMatch.end ],
            relevanceScore |-> CalculateRelevanceScore(content, filename,
                                                        Join(queries, << " " >>)),
            metadata |-> [ chunkIndex |-> index - 1, originalRank |-> index - 1,
                           embeddingModel |-> embeddingModel ] ] ]

\* calculateConfidence(chunks), in units of 1/Scale
CalculateConfidence(chunks) ==
  IF Len(chunks) = 0 THEN 0
  ELSE LET total == SumTo([ k \in 1..Len(chunks) |-> chunks[k].relevanceScore ], Len(chunks))
           avgRelevance == total \div Len(chunks)
           diversityScore ==
             (Cardinality({ chunks[k].filename : k \in 1..Len(chunks) }) * Scale)
               \div Len(chunks)
       IN  Min2((avgRelevance * 7 + diversityScore * 3) \div 10, Scale)

\* the loop of searchWithEnhancedQueries over the queries, as one function
RECURSIVE EnhancedResults(_, _, _, _)
EnhancedResults(compatibleDocs, queries, embeddings, unique) ==
  IF queries = <<>> THEN unique
  ELSE EnhancedResults(compatibleDocs, Tail(queries), Tail(embeddings),
         AddResults(unique,
                    BoostedSimilarities(compatibleDocs, Head(queries), Head(embeddings))))

\* the index the fetches run against: the first chunk of api.ts and of
\* retry.ts under one model, embedded as v and w
FetchIndex(v, w) ==
  << MakeDoc(ApiTs.name, ChunkWith(ApiTs.text, 0, 1000, 200), 0, <<"e", "5">>, v),
     MakeDoc(RetryTs.name, ChunkWith(RetryTs.text, 0, 1000, 200), 0, <<"e", "5">>, w) >>

\* what searchWithEnhancedQueries(queries, 12, model) returns on an index
\* when every query is embedded as qv
SearchedChunks(queries, index, qv) ==
  FormatAll(Slice(SortDescending(
    EnhancedResults(index, queries, [ k \in 1..Len(queries) |-> qv ], <<>>),
    "maxSimilarity"), 12))

FetchQueries ==
  { << QRetryLogic >>, << QRetryRequest >>, << QRetryLogic, QRetryRequest >>,
    << QRetryRequest, QRetryLogic >> }

\* A variant of the test for an empty corpus that never holds, used to test C25.
NeverEmpty(files) == FALSE

\* uploadedFiles.length === 0
NoFiles(files) == files = 0

\* fetchContext({queries, uploadedFiles}): the early return for no files, or
\* the call of searchWithEnhancedQueries
FetchContextCall(queries, files) ==
  /\ fetch.pc \in {"idle", "done"}
  /\ fetch' =
       IF NoFiles(files)
         THEN [ IdleFetch EXCEPT
                  !.pc = "done", !.queries = queries, !.uploadedFiles = files,
                  !.response = [ success |-> TRUE, data |-> <<>>, confidence |-> 0 ] ]
         ELSE [ IdleFetch EXCEPT
                  !.pc = "searching", !.queries = queries,
                  !.uploadedFiles = files, !.searchCalls = 1 ]

\* searchWithEnhancedQueries reads the index, embeds the queries, resolves,
\* and the chunks are processed
SearchResolves(index, queryEmbedding) ==
  /\ fetch.pc = "searching"
  /\ LET rawChunks == SearchedChunks(fetch.queries, index, queryEmbedding)
         processedChunks == ProcessContextChunks(rawChunks, fetch.queries, "nomic-embed-text")
     IN  fetch' = [ fetch EXCEPT
           !.pc = "done", !.index = index, !.queryEmbedding = queryEmbedding,
           !.rawChunks = rawChunks,
           !.response = [ success |-> TRUE, data |-> processedChunks,
                          confidence |-> CalculateConfidence(processedChunks) ] ]

\* useVectorStore or the search throws: the catch of fetchContext
SearchThrows ==
  /\ fetch.pc = "searching"
  /\ fetch' = [ fetch EXCEPT !.pc = "done",
                             !.response = [ success |-> FALSE, data |-> <<>> ] ]

----------------------------------------------------------------------------
(* VerifierAgent.checkCodeValidity on the text of an answer *)

\* the backtick character (the string syntax has no backtick)
Backtick == "backtick"

Fence == << Backtick, Backtick, Backtick >>

\* the first position from pos on where three backticks start, 0 if none
NextFence(text, pos) ==
  LET at == { p \in pos..Len(text) : StartsWithAt(text, p, Fence) }
  IN  IF at = {} THEN 0 ELSE CHOOSE p \in at : \A r \in at : p <= r

\* the fenced blocks of response: three backticks, the shortest text, three
\* backticks, found from left to right
RECURSIVE MatchCodeBlocks(_, _)
MatchCodeBlocks(text, pos) ==
  LET open == NextFence(text, pos)
      close == IF open = 0 THEN 0 ELSE NextFence(text, open + 3)
  IN  IF close = 0 THEN <<>>
      ELSE << SubSeq(text, open, close + 2) >> \o MatchCodeBlocks(text, close + 3)

\* response has an inline code span: two backticks with a non-empty text
\* without backticks between them
HasInlineCode(text) ==
  \E i, j \in 1..Len(text) :
    /\ i + 1 < j /\ text[i] = Backtick /\ text[j] = Backtick
    /\ \A k \in (i + 1)..(j - 1) : text[k] # Backtick

\* the code of a block: the opening fence with its word characters and one
\* newline removed, then the fence at the end removed
StripFences(block) ==
  LET afterWord == 4 + Run(block, 4, "word")
      from == IF afterWord <= Len(block) /\ block[afterWord] = "\n"
                THEN afterWord + 1 ELSE afterWord
      rest == SubSeq(block, from, Len(block))
  IN  IF Len(rest) >= 3 /\ SubSeq(rest, Len(rest) - 2, Len(rest)) = Fence
        THEN SubSeq(rest, 1, Len(rest) - 3) ELSE rest

Closer(c) == IF c = "(" THEN ")" ELSE IF c = "[" THEN "]" ELSE "}"

\* A variant that accepts every bracket sequence, used to test C23.
AnyBraces(code) == TRUE

RECURSIVE BraceScan(_, _, _)
BraceScan(code, pos, stack) ==
  IF pos > Len(code) THEN stack = <<>>
  ELSE IF code[pos] \in {"(", "[", "{"}
    THEN BraceScan(code, pos + 1, Append(stack, code[pos]))
  ELSE IF code[pos] \in {")", "]", "}"}
    THEN IF stack = <<>> \/ Closer(stack[Len(stack)]) # code[pos] THEN FALSE
         ELSE BraceScan(code, pos + 1, SubSeq(stack, 1, Len(stack) - 1))
  ELSE BraceScan(code, pos + 1, stack)

\* checkMatchingBraces(code)
CheckMatchingBraces(code) == BraceScan(code, 1, <<>>)

\* checkBasicSyntax(code): every non-blank line has an even number of ' and of "
CheckBasicSyntax(code) ==
  LET lines == SplitOn(code, "\n")
      Count(line, c) == Cardinality({ k \in 1..Len(line) : line[k] = c })
  IN  \A n \in 1..Len(lines) :
        LET trimmed == Trim(lines[n])
        IN  trimmed = <<>> \/ (Count(trimmed, "'") % 2 = 0 /\ Count(trimmed, "\"") % 2 = 0)

\* checkCodeValidity(response): the blocks found, the valid ones among them,
\* and the confidence
CodeValidity(text) ==
  LET codeBlocks == MatchCodeBlocks(text, 1)
      Valid(block) ==
        CheckMatchingBraces(StripFences(block)) /\ CheckBasicSyntax(StripFences(block))
      validCodeBlocks == Len(SelectSeq(codeBlocks, Valid))
  IN  [ totalCodeBlocks |-> Len(codeBlocks), validCodeBlocks |-> validCodeBlocks,
        confidence |-> CheckCodeValidity(Len(codeBlocks), validCodeBlocks,
                                         HasInlineCode(text)) ]

MaxPieces == 5     \* pieces an answer is put together from

\* the pieces of the answers: a block with balanced brackets, the block
\* "function f() { return 1;" with an open brace, and prose with inline code
Pieces ==
  [ good |-> <<Backtick, Backtick, Backtick, "j", "s", "\n", "f", "(", "'", "a", "'", ")", " ", "{", " ", "}", "\n", Backtick, Backtick, Backtick>>,
    bad |-> <<Backtick, Backtick, Backtick, "\n", "f", "u", "n", "c", "t", "i", "o", "n", " ", "f", "(", ")", " ", "{", " ", "r", "e", "t", "u", "r", "n", " ", "1", ";", "\n", Backtick, Backtick, Backtick>>,
    prose |-> <<"u", "s", "e", " ", Backtick, "f", Backtick, " ">> ]

RECURSIVE PieceLists(_)
PieceLists(n) ==
  IF n = 0 THEN { <<>> }
  ELSE PieceLists(n - 1)
         \cup { Append(l, p) : l \in { m \in PieceLists(n - 1) : Len(m) = n - 1 },
                               p \in DOMAIN Pieces }

RECURSIVE Concat(_)
Concat(names) == IF names = <<>> THEN <<>> ELSE Pieces[Head(names)] \o Concat(Tail(names))

\* verifyResponse({response, context: []}), up to the await of the five checks
VerifyResponseCall(names) ==
  /\ lab.op = "none"
  /\ lab' = [ op |-> "checking", pieces |-> names, response |-> Concat(names),
              codeValidity |-> CodeValidity(Concat(names)) ]

\* the checks have settled: the issues are collected (relevance, accuracy,
\* completeness and consistency as the checks can report them for an answer
\* without context)
VerifyResponseSettles(r, a, c, s) ==
  /\ lab.op = "checking"
  /\ lab' = [ lab EXCEPT
                !.op = "verified",
                !.codeValidity = lab.codeValidity.confidence ]
            @@ [ issues |-> CollectIssues(r, a, c, lab.codeValidity.confidence, s) ]

----------------------------------------------------------------------------
(* VerifierAgent.verifyResponse: the five confidences and their sum *)

\* component confidences handed to calculateOverallConfidence directly
ConfidenceGrid == { 0, Pct(30), Pct(70), Pct(90), Scale }

\* calculateOverallConfidence(verificationResults)
CalculateOverallConfidenceCall(r, a, c, v, s) ==
  /\ lab.op = "none"
  /\ lab' = [ op |-> "calculateOverallConfidence",
              relevance |-> r, accuracy |-> a, completeness |-> c,
              codeValidity |-> v, consistency |-> s,
              overallConfidence |-> CalculateOverallConfidence(r, a, c, v, s) ]

\* verifyResponse up to the collected issues, for what the five checks can
\* measure on a non-empty or empty answer, with or without context
VerifyResponse(hasCtx, empty) ==
  /\ lab.op = "none"
  /\ \E r \in RelevanceValues(empty), a \in AccuracyValues(hasCtx, empty),
        c \in CompletenessValues(empty), v \in CodeValidityValues(empty),
        s \in ConsistencyValues(hasCtx, empty) :
       lab' = [ op |-> "verifyResponse",
                relevance |-> r, accuracy |-> a, completeness |-> c,
                codeValidity |-> v, consistency |-> s,
                overallConfidence |-> CalculateOverallConfidence(r, a, c, v, s),
                issues |-> CollectIssues(r, a, c, v, s) ]

----------------------------------------------------------------------------
(* ManagerAgent.analyzeAndPlan: complexity, plan and priority *)

\* the intent patterns of analyzeQuery, in the order of the queryTypes object
QueryTypes ==
  << "explanation", "debugging", "implementation", "optimization", "search",
     "analysis", "documentation", "testing" >>

QueryLengths == { 20, 50, 300 }

\* calculateQueryComplexity(query, types), by the length of the query, the
\* number of detected types, whether it includes 'and' or 'also', and whether
\* it has more than one question mark; in units of 1/Scale
CalculateQueryComplexity(length, types, hasAnd, manyQuestions) ==
  Min2( Pct(30)
          + Min2((length * Scale) \div 500, Pct(20))
          + Len(types) * Pct(10)
          + (IF hasAnd THEN Pct(10) ELSE 0)
          + (IF manyQuestions THEN Pct(10) ELSE 0)
          + (IF length > 200 THEN Pct(10) ELSE 0),
        Scale )

\* A variant with the threshold of requiresMultiStep, used to test C26.
OverMultiStepThreshold(complexity) == complexity > Pct(70)

\* analysis.complexity > 0.8
OverVerificationThreshold(complexity) == complexity > Pct(80)

\* calculatePriority(analysis)
CalculatePriority(types, complexity) ==
  IF IsIn(types, "debugging") THEN "high"
  ELSE IF complexity > Pct(80) THEN "high"
  ELSE IF IsIn(types, "implementation") THEN "medium"
  ELSE "low"

\* createExecutionPlan(analysis, tools, context), without the step texts
CreateExecutionPlan(complexity) ==
  [ complexity |-> complexity,
    requiresVerification |-> OverVerificationThreshold(complexity) ]

\* analyzeAndPlan for a query of the given length that matches the patterns
\* of matched
AnalyzeAndPlanCall(length, matched, hasAnd, manyQuestions) ==
  /\ lab.op = "none"
  /\ LET detectedTypes == SelectSeq(QueryTypes, LAMBDA t : t \in matched)
         complexity == CalculateQueryComplexity(length, detectedTypes, hasAnd, manyQuestions)
     IN  lab' = [ op |-> "analyzeAndPlan",
                  types |-> detectedTypes,
                  tools |-> SelectToolsForQuery(detectedTypes),
                  plan |-> CreateExecutionPlan(complexity),
                  priority |-> CalculatePriority(detectedTypes, complexity),
                  estimatedComplexity |-> complexity,
                  confidence |-> IF Len(detectedTypes) > 0 THEN Pct(80) ELSE Pct(50) ]

----------------------------------------------------------------------------
(* chunkText, one iteration of its while loop at a time *)

\* more iterations than any text of the model needs
MaxIterations == MaxTextLen + 2

\* A variant that restarts the next window where this one started, used to
\* test C27.
SameStart(start, end, overlap) == start

\* start = end - overlap
NextStart(start, end, overlap) == end - overlap

\* chunkText(text, filename, chunkSize, overlap) is entered
ChunkLoopEnter(text, chunkSize, overlap) ==
  /\ lab.op = "none"
  /\ lab' = [ op |-> "chunking", text |-> text, chunkSize |-> chunkSize,
              overlap |-> overlap, start |-> 0, chunks |-> <<>> ]

\* one pass through the body of while (start < text.length)
ChunkLoopIteration ==
  /\ lab.op = "chunking"
  /\ lab.start < Len(lab.text)
  /\ Len(lab.chunks) < MaxIterations
  /\ LET end == Min2(lab.start + lab.chunkSize, Len(lab.text))
         chunkContent == SubSeq(lab.text, lab.start + 1, end)
         chunks == Append(lab.chunks, [ content |-> chunkContent, start |-> lab.start ])
     IN  lab' = IF end = Len(lab.text)
                  THEN [ lab EXCEPT !.op = "returned", !.chunks = chunks ]
                  ELSE [ lab EXCEPT !.chunks = chunks,
                                    !.start = NextStart(lab.start, end, lab.overlap) ]

\* the loop condition fails: return chunks
ChunkLoopExit ==
  /\ lab.op = "chunking"
  /\ ~(lab.start < Len(lab.text))
  /\ lab' = [ lab EXCEPT !.op = "returned" ]

----------------------------------------------------------------------------
(* Re-ingesting a file whose content changed *)

\* Go.ts after an edit that shortened it to one window
GoTsShort == [ name |-> GoTs.name, text |-> SubSeq(GoTs.text, 1, 6) ]

VersionLists == { << GoTs >>, << GoTsShort >>, << IoTs >> }

----------------------------------------------------------------------------
(* The vector store while /api/embeddings is unavailable *)

\* Array(384).fill(0).map(() => Math.random() - 0.5): directions the fallback
\* of generateEmbedding can take from one call to the next
RandomFallbackVectors ==
  { [ i \in 1..FallbackDim |-> IF i = k THEN 1 ELSE 0 ] : k \in 1..FallbackDim }

MaxSearches == 2     \* searches followed in one behaviour

\* the embedding model in use during the outage
OutageModel == << "e", "5" >>

\* the embeddings generateEmbedding has returned and the searches that have
\* returned so far
NoHistory == [ op |-> "outage", served |-> {}, searches |-> {} ]
History == IF lab.op = "outage" THEN lab ELSE NoHistory

\* generateEmbedding(text, embeddingModel) fell back to embedding
Served(text, embeddingModel, embedding) ==
  [ History EXCEPT !.served = @ \cup { [ text |-> text, embeddingModel |-> embeddingModel,
                                         embedding |-> embedding ] } ]

\* the chunk being embedded is stored with the fallback vector
OutageStoreChunk(embedding) ==
  /\ StoreChunk(embedding)
  /\ lab' = Served(ingest.chunks[ingest.i + 1].content, ingest.embeddingModel, embedding)

\* searchSimilar is called
OutageSearch(q, topK, embeddingModel) ==
  /\ Cardinality(History.searches) < MaxSearches
  /\ SearchSimilar(q, topK, embeddingModel)
  /\ UNCHANGED lab

\* the query is embedded with the fallback vector and the search returns
OutageSearchReturn(queryEmbedding) ==
  /\ SimilarReturn(queryEmbedding)
  /\ lab' = [ Served(search.queries[1], search.embeddingModel, queryEmbedding) EXCEPT
                !.searches = @ \cup { [ query |-> search.queries[1],
                                        topK |-> search.topK,
                                        embeddingModel |-> search.embeddingModel,
                                        index |-> docs,
                                        result |-> search'.result ] } ]

----------------------------------------------------------------------------
(* The specifications *)

Init ==
  /\ selectedModel \in GenModels
  /\ selectedEmbeddingModel \in EmbModels
  /\ agents = InitializeAgents(selectedModel, selectedEmbeddingModel)
  /\ pc = "idle"
  /\ query = "how does retry work"
  /\ uploadedFiles = 0
  /\ agentTrace = <<>>
  /\ instance = "none"
  /\ enhancedQueries = PendingResponse(<<>>)
  /\ context = PendingResponse(<<>>)
  /\ managementPlan = PendingResponse(Null)
  /\ answer = PendingResponse("")
  /\ verification = PendingResponse(Null)
  /\ result = NoResult
  /\ outcome = "pending"
  /\ startModel = selectedModel
  /\ startEmbeddingModel = selectedEmbeddingModel
  /\ stageCalls = [st \in StageSet |-> 0]
  /\ generateCalls = 0
  /\ improveCalls = 0
  /\ improveReply = "none"
  /\ qaEndpoint = "none"
  /\ thrown = FALSE
  /\ docs = <<>>
  /\ ingest = IdleIngest(0)
  /\ search = IdleSearch
  /\ uploads = IdleUploads
  /\ embed = IdleEmbed
  /\ gen = IdleGen
  /\ lab = IdleLab
  /\ fetch = IdleFetch

Next ==
  \/ \E q \in Queries, n \in 0..MaxFiles : StartQuery(q, n) /\ UNCHANGED <<storeVars, restVars>>
  \/ QueriesReturn /\ UNCHANGED <<storeVars, restVars>>
  \/ ContextReturn /\ UNCHANGED <<storeVars, restVars>>
  \/ ManagerReturn /\ UNCHANGED <<storeVars, restVars>>
  \/ QAReturn /\ UNCHANGED <<storeVars, restVars>>
  \/ VerifierChecks /\ UNCHANGED <<storeVars, restVars>>
  \/ ImproveReturn /\ UNCHANGED <<storeVars, restVars>>
  \/ \E m \in GenModels : UpdateModel(m) /\ UNCHANGED <<storeVars, restVars>>
  \/ \E e \in EmbModels : UpdateEmbeddingModel(e) /\ UNCHANGED <<storeVars, restVars>>

Spec == Init /\ [][Next]_vars

\* the store on its own: the orchestrator stays in one initial state
InitStore ==
  /\ Init
  /\ selectedModel = "llama3"
  /\ selectedEmbeddingModel = "nomic-embed-text"

NextStore ==
  \/ (\E files \in FileLists, m \in StoreModels : ProcessFiles(files, m))
       /\ UNCHANGED <<pipelineVars, restVars>>
  \/ (\E v \in GenerateEmbedding : StoreChunk(v)) /\ UNCHANGED <<pipelineVars, restVars>>
  \/ (\E q \in StoreQueries, k \in 1..MaxTopK, m \in StoreModels : SearchSimilar(q, k, m))
       /\ UNCHANGED <<pipelineVars, restVars>>
  \/ (\E v \in GenerateEmbedding : SimilarReturn(v)) /\ UNCHANGED <<pipelineVars, restVars>>
  \/ (\E qs \in QueryLists, k \in 1..MaxTopK, m \in StoreModels :
        SearchWithEnhancedQueries(qs, k, m)) /\ UNCHANGED <<pipelineVars, restVars>>
  \/ (\E v \in GenerateEmbedding : EnhancedReturn(v)) /\ UNCHANGED <<pipelineVars, restVars>>

SpecStore == InitStore /\ [][NextStore]_vars

InitUploads == InitStore

NextUploads ==
  \/ (\E p \in 1..MaxUploads, files \in UploadLists, m \in UploadModels :
        UploadFiles(p, files, m))
       /\ UNCHANGED <<pipelineVars, ingest, search, embed, gen, lab, fetch>>
  \/ (\E p \in 1..MaxUploads, v \in GenerateEmbedding : UploadChunk(p, v))
       /\ UNCHANGED <<pipelineVars, ingest, search, embed, gen, lab, fetch>>

SpecUploads == InitUploads /\ [][NextUploads]_vars

\* generate_embedding tasks of the EmbeddingAgent
InitEmbedding == InitStore

NextEmbedding ==
  \/ (\E text \in AgentTexts, m \in AgentModels : ExecuteGenerateEmbedding(text, m))
       /\ UNCHANGED <<pipelineVars, storeVars, uploads, gen, lab, fetch>>
  \/ (\E ok \in BOOLEAN, v \in AgentVectors : GenerateEmbeddingReturn(ok, v))
       /\ UNCHANGED <<pipelineVars, storeVars, uploads, gen, lab, fetch>>

SpecEmbedding == InitEmbedding /\ [][NextEmbedding]_vars

\* batch_embed tasks of the EmbeddingAgent
InitBatch == InitStore

NextBatch ==
  \/ (\E texts \in TextLists, m \in AgentModels, n \in 1..MaxBatchSize :
        BatchEmbed(texts, m, n))
       /\ UNCHANGED <<pipelineVars, storeVars, uploads, gen, lab, fetch>>
  \/ (\E k \in embed.inflight, ok \in BOOLEAN, v \in AgentVectors :
        BatchCallSettles(k, ok, v))
       /\ UNCHANGED <<pipelineVars, storeVars, uploads, gen, lab, fetch>>
  \/ BatchDelay /\ UNCHANGED <<pipelineVars, storeVars, uploads, gen, lab, fetch>>

SpecBatch == InitBatch /\ [][NextBatch]_vars

\* chunkText and the scoring of one chunk, applied to chosen inputs
InitText == InitStore

NextText ==
  \/ (\E n \in 0..MaxTextLen, w \in 1..MaxChunkSize :
        \E o \in 0..(w - 1) : ChunkTextCall(SubSeq(LabText, 1, Min2(n, Len(LabText))), w, o))
       /\ UNCHANGED <<pipelineVars, storeVars, uploads, embed, gen, fetch>>
  \/ (\E file \in LabFiles, q \in LabQueries, v \in LabVectors, qv \in LabVectors :
        ScoreChunk(file, q, v, qv))
       /\ UNCHANGED <<pipelineVars, storeVars, uploads, embed, gen, fetch>>

SpecText == InitText /\ [][NextText]_vars

\* generate_queries tasks of the EnhancedQueriesMakerAgent
InitQueries == InitStore

NextQueries ==
  \/ (\E q \in GenQueries, h \in Histories : GenerateQueriesCall(q, h))
       /\ UNCHANGED <<pipelineVars, storeVars, uploads, embed, lab, fetch>>
  \/ (\E g \in gen.pending, ok \in BOOLEAN, r \in ModelResponses :
        LanguageModelSettles(g, ok, r))
       /\ UNCHANGED <<pipelineVars, storeVars, uploads, embed, lab, fetch>>

SpecQueries == InitQueries /\ [][NextQueries]_vars


\* fetch_context tasks of the ContextFetcherAgent
InitFetch == InitStore

NextFetch ==
  \/ (\E qs \in FetchQueries, n \in 0..MaxFiles : FetchContextCall(qs, n))
       /\ UNCHANGED <<pipelineVars, storeVars, uploads, embed, gen, lab>>
  \/ (\E v \in LabVectors, w \in LabVectors, qv \in LabVectors :
        SearchResolves(FetchIndex(v, w), qv))
       /\ UNCHANGED <<pipelineVars, storeVars, uploads, embed, gen, lab>>
  \/ SearchThrows /\ UNCHANGED <<pipelineVars, storeVars, uploads, embed, gen, lab>>

SpecFetch == InitFetch /\ [][NextFetch]_vars


\* verify_response tasks of the VerifierAgent on the text of an answer
InitCode == InitStore

NextCode ==
  \/ (\E names \in PieceLists(MaxPieces) \ { <<>> } : VerifyResponseCall(names))
       /\ UNCHANGED <<pipelineVars, storeVars, uploads, embed, gen, fetch>>
  \/ (\E r \in RelevanceValues(FALSE), a \in AccuracyValues(FALSE, FALSE),
         c \in CompletenessValues(FALSE), s \in ConsistencyValues(FALSE, FALSE) :
        VerifyResponseSettles(r, a, c, s))
       /\ UNCHANGED <<pipelineVars, storeVars, uploads, embed, gen, fetch>>

SpecCode == InitCode /\ [][NextCode]_vars


\* verify_response tasks of the VerifierAgent, by what the checks measure
InitVerify == InitStore

NextVerify ==
  \/ (\E hasCtx \in BOOLEAN, empty \in BOOLEAN : VerifyResponse(hasCtx, empty))
       /\ UNCHANGED <<pipelineVars, storeVars, uploads, embed, gen, fetch>>
  \/ (\E r \in ConfidenceGrid, a \in ConfidenceGrid, c \in ConfidenceGrid,
         v \in ConfidenceGrid, s \in ConfidenceGrid :
        CalculateOverallConfidenceCall(r, a, c, v, s))
       /\ UNCHANGED <<pipelineVars, storeVars, uploads, embed, gen, fetch>>

SpecVerify == InitVerify /\ [][NextVerify]_vars


\* analyze_and_plan tasks of the ManagerAgent
InitPlan == InitStore

NextPlan ==
  (\E length \in QueryLengths, matched \in SUBSET { QueryTypes[k] : k \in DOMAIN QueryTypes },
      hasAnd \in BOOLEAN, manyQuestions \in BOOLEAN :
     AnalyzeAndPlanCall(length, matched, hasAnd, manyQuestions))
    /\ UNCHANGED <<pipelineVars, storeVars, uploads, embed, gen, fetch>>

SpecPlan == InitPlan /\ [][NextPlan]_vars


\* chunkText step by step, for 0 <= overlap < chunkSize
InitLoop == InitStore

NextLoop ==
  \/ (\E n \in 0..MaxTextLen, w \in 1..MaxChunkSize :
        \E o \in 0..(w - 1) : ChunkLoopEnter(SubSeq(LabText, 1, Min2(n, Len(LabText))), w, o))
       /\ UNCHANGED <<pipelineVars, storeVars, uploads, embed, gen, fetch>>
  \/ ChunkLoopIteration /\ UNCHANGED <<pipelineVars, storeVars, uploads, embed, gen, fetch>>
  \/ ChunkLoopExit /\ UNCHANGED <<pipelineVars, storeVars, uploads, embed, gen, fetch>>

\* a call that has been entered keeps running: each enabled step of the loop
\* is eventually taken
SpecLoop ==
  /\ InitLoop /\ [][NextLoop]_vars
  /\ WF_vars(ChunkLoopIteration /\ UNCHANGED <<pipelineVars, storeVars, uploads, embed, gen, fetch>>)
  /\ WF_vars(ChunkLoopExit /\ UNCHANGED <<pipelineVars, storeVars, uploads, embed, gen, fetch>>)


\* processFiles calls over the versions of a file
InitReingest == InitStore

NextReingest ==
  \/ (\E files \in VersionLists, m \in StoreModels : ProcessFiles(files, m))
       /\ UNCHANGED <<pipelineVars, restVars>>
  \/ (\E v \in GenerateEmbedding : StoreChunk(v)) /\ UNCHANGED <<pipelineVars, restVars>>

SpecReingest == InitReingest /\ [][NextReingest]_vars


\* the vector store during an outage of the embedding endpoint
InitOutage == InitStore

NextOutage ==
  \/ ProcessFiles(<< GoTs >>, OutageModel) /\ UNCHANGED <<pipelineVars, restVars>>
  \/ (\E v \in RandomFallbackVectors : OutageStoreChunk(v))
       /\ UNCHANGED <<pipelineVars, uploads, embed, gen, fetch>>
  \/ (\E q \in StoreQueries : OutageSearch(q, 1, OutageModel))
       /\ UNCHANGED <<pipelineVars, uploads, embed, gen, fetch>>
  \/ (\E v \in RandomFallbackVectors : OutageSearchReturn(v))
       /\ UNCHANGED <<pipelineVars, uploads, embed, gen, fetch>>

SpecOutage == InitOutage /\ [][NextOutage]_vars


----------------------------------------------------------------------------
(* Properties of the orchestrator (specification Spec) *)

IsPrefix(s, t) == Len(s) <= Len(t) /\ SubSeq(t, 1, Len(s)) = s

TenEntries ==
  << Entry("queries", "starting"), Entry("queries", "completed"),
     Entry("context", "starting"), Entry("context", "completed"),
     Entry("manager", "starting"), Entry("manager", "completed"),
     Entry("qa", "starting"), Entry("qa", "completed"),
     Entry("verifier", "starting"), Entry("verifier", "completed") >>

HasEntry(a, st) == \E i \in 1..Len(agentTrace) : agentTrace[i] = Entry(a, st)
HasAgent(a) == \E i \in 1..Len(agentTrace) : agentTrace[i].agent = a

\* C1 (as claimed): when the Synthesizer's generation call fails, the returned
\* trace has an 'error' entry for the qa stage, no entry of the verifier
\* stage, and the answer text names the qa stage.
C1_FailedStageTraced ==
  (pc = "done" /\ qaEndpoint = "error") =>
     /\ HasEntry("qa", "error")
     /\ ~HasAgent("verifier")
     /\ result.response.kind = "degraded"
     /\ result.response.failedAt = "qa"

\* C2 (as claimed): every stage of a query in flight runs on an instance
\* configured with the models selected when the query started.
C2_InFlightNotMigrated ==
  pc \in StageSet \cup {"improving"} =>
     instance = (IF pc = "context" THEN startEmbeddingModel ELSE startModel)

\* C3: as long as the catch block is not entered the trace is a prefix of
\* the ten entries in the fixed stage order, and the returned trace is
\* exactly those ten.
C3_FixedStageOrder ==
  ~thrown =>
     /\ IsPrefix(agentTrace, TenEntries)
     /\ pc = "done" => (agentTrace = TenEntries /\ result.agentTrace = TenEntries)

C3_Witness == pc = "done" /\ ~thrown /\ Len(agentTrace) = 10 /\ ~answer.success

\* C4: once an exception is caught, the call returns empty context and
\* tools, the original query as the only enhanced query, and the trace built
\* so far followed by one error entry; no stage is invoked afterwards.
C4_DegradedResponse ==
  (pc = "done" /\ thrown) =>
     LET n == Len(agentTrace)
         front == SubSeq(agentTrace, 1, n - 1)
     IN  /\ result.context = <<>>
         /\ result.tools = <<>>
         /\ result.enhancedQueries = <<query>>
         /\ result.agentTrace = agentTrace
         /\ n >= 1 /\ agentTrace[n].status = "error"
         /\ IsPrefix(front, TenEntries)
         /\ \A st \in StageSet :
              /\ stageCalls[st] <= 1
              /\ stageCalls[st] = 1 =>
                   \E i \in 1..(n - 1) : front[i] = Entry(st, "completed")
              /\ stageCalls[st] = 0 =>
                   ~\E i \in 1..(n - 1) : front[i] = Entry(st, "completed")

C4_Witness == pc = "done" /\ thrown /\ context.data # <<>> /\ stageCalls["qa"] = 0

PipelineStep ==
  QueriesReturn \/ ContextReturn \/ ManagerReturn \/ QAReturn \/ VerifierChecks
    \/ ImproveReturn

\* C5: the call never rejects; whatever the stages returned, it can always
\* go on, and it ends resolved with the five fields of the result.
C5_AlwaysResolves ==
  /\ outcome # "rejected"
  /\ pc \in StageSet \cup {"improving"} => (outcome = "pending" /\ ENABLED PipelineStep)
  /\ pc = "done" =>
       /\ outcome = "resolved"
       /\ DOMAIN result = {"kind", "response", "context", "tools",
                           "enhancedQueries", "agentTrace"}

C5_Witness ==
  pc = "done" /\ outcome = "resolved" /\ verification.done /\ verification.data = Null
    /\ ~answer.success /\ ~context.success

\* C6: within one call every stage is invoked at most once, at most one
\* improvement request is issued, and at most two answer-generation requests.
C6_NoPipelineRetry ==
  /\ \A st \in StageSet : stageCalls[st] <= 1
  /\ improveCalls <= 1
  /\ generateCalls <= 2

C6_Witness == pc = "done" /\ generateCalls = 2 /\ improveCalls = 1

\* C7: the improvement request is issued exactly once when the overall
\* confidence is below 0.7, which always comes with at least one issue, and
\* never otherwise.
C7_ImprovementTrigger ==
  verification.data # Null =>
     /\ verification.data.overallLow =>
          (Len(verification.data.issues) > 0 /\ improveCalls = 1)
     /\ ~verification.data.overallLow => improveCalls = 0

C7_Witness ==
  /\ pc = "done" /\ verification.data # Null /\ answer.data = "draft answer"
  /\ verification.data.overallLow /\ improveCalls = 1

\* C8: when the improvement request fails or returns nothing, verifyResponse
\* still succeeds with the original answer, not marked improved, and the
\* call returns that answer.
C8_ImprovementFailureKeepsAnswer ==
  (pc = "done" /\ improveReply \in {"error", "empty"}) =>
     /\ ~thrown
     /\ verification.success
     /\ verification.data.finalResponse = answer.data
     /\ ~verification.data.improved
     /\ result.response = [kind |-> "answer", text |-> answer.data]

C8_Witness ==
  pc = "done" /\ improveReply = "error" /\ answer.data = "draft answer"


----------------------------------------------------------------------------
(* Properties of the vector store (specification SpecStore) *)

\* the boosted scores searchWithEnhancedQueries computed for a chunk, one
\* per query; a NaN is no score
BoostedScores(id) ==
  { t.similarity : t \in { u \in search.scores : u.id = id /\ ~IsNaN(u.similarity) } }

\* C9: uniqueResults never holds an id twice; what searchWithEnhancedQueries
\* returns has one result per chunk id, each ranked under the maximum of the
\* boosted scores the chunk got over all queries, in descending order.
C9_DedupKeepsMaximum ==
  /\ \A i, j \in 1..Len(search.uniqueResults) :
       i # j => search.uniqueResults[i].id # search.uniqueResults[j].id
  /\ (search.pc = "done" /\ search.kind = "enhanced") =>
       LET r == search.sortedResults
       IN  /\ Len(search.result) = Len(r)
           /\ \A i, j \in 1..Len(r) : i # j => r[i].id # r[j].id
           /\ \A i \in 1..Len(r) :
                /\ search.result[i] = Format(r[i])
                /\ \A qi \in 1..Len(search.queries) :
                     \E t \in search.scores : t.id = r[i].id /\ t.qi = qi
                /\ r[i].maxSimilarity \in BoostedScores(r[i].id)
                /\ \A x \in BoostedScores(r[i].id) : x <= r[i].maxSimilarity
           /\ \A i, j \in 1..Len(r) : i < j => r[i].maxSimilarity >= r[j].maxSimilarity

C9_Witness ==
  /\ search.pc = "done" /\ search.kind = "enhanced" /\ Len(search.queries) = 2
  /\ Len(search.sortedResults) = 2
  /\ \E i \in 1..Len(search.sortedResults), t \in search.scores :
       /\ t.id = search.sortedResults[i].id /\ t.qi = 2
       /\ Gt(t.similarity, Pct(10))
       /\ t.similarity < search.sortedResults[i].maxSimilarity

\* C10: both searches compare the query only with documents whose
\* embeddingModel is the one searched for, return only documents they
\* compared, and return the empty list when the store read holds no
\* document of that model.
C10_NoMixedVectorSpaces ==
  /\ \A d \in search.scored : d.embeddingModel = search.embeddingModel
  /\ search.pc = "done" =>
       /\ Len(search.result) = Len(search.sortedResults)
       /\ \A i \in 1..Len(search.sortedResults) :
            \E d \in search.scored : d.id = search.sortedResults[i].id
       /\ (~\E d \in search.allDocs : d.embeddingModel = search.embeddingModel) =>
            (search.result = <<>> /\ search.scored = {})

C10_Witness ==
  /\ search.pc = "done" /\ search.result # <<>>
  /\ \E d \in search.allDocs : d.embeddingModel # search.embeddingModel


\* C11 (as claimed): a chunk written for a (filename, window index, embedding
\* model) triple is never overwritten by the chunk of another triple: every
\* triple written so far still has its record in the store.
C11_KeysUniquePerIdentity ==
  \A t \in uploads.written :
    \E k \in 1..Len(docs) :
      /\ docs[k].filename = t.filename
      /\ docs[k].metadata.chunkIndex = t.chunkIndex
      /\ docs[k].embeddingModel = t.embeddingModel


\* C12: while a file is ingested under one model, every chunk the store
\* holds for that file under another model stays in the store exactly as it
\* was, and the chunk just embedded is stored beside it under the new model.
C12_ReingestSupersedes ==
  [][ ingest.pc = "embedding" /\ ingest' # ingest =>
        /\ \A k \in 1..Len(docs) :
             (docs[k].filename = Head(ingest.files).name
                /\ docs[k].embeddingModel # ingest.embeddingModel) =>
               \E j \in 1..Len(docs') : docs'[j] = docs[k]
        /\ \E j \in 1..Len(docs') :
             /\ docs'[j].filename = Head(ingest.files).name
             /\ docs'[j].metadata.chunkIndex = ingest.i
             /\ docs'[j].embeddingModel = ingest.embeddingModel ]_vars

C12_Witness ==
  /\ ingest.pc = "idle" /\ ingest.runs = 2
  /\ \E k, j \in 1..Len(docs) :
       /\ docs[k].filename = GoTs.name /\ docs[j].filename = GoTs.name
       /\ docs[k].metadata.chunkIndex = 1 /\ docs[j].metadata.chunkIndex = 1
       /\ docs[k].embeddingModel # docs[j].embeddingModel


\* C13 (as claimed): every similarity score that is a number, the cosine of
\* searchSimilar and the boosted score of searchWithEnhancedQueries alike,
\* lies between 0 and 1.
C13_ScoresInUnitInterval ==
  \A t \in search.scores :
    ~IsNaN(t.similarity) => (0 <= t.similarity /\ t.similarity <= Scale)


\* C14 (as claimed): all chunks stored under one embedding model carry
\* vectors of one length, whether the endpoint answered or failed.
C14_OneLengthPerModel ==
  \A k, j \in 1..Len(docs) :
    docs[k].embeddingModel = docs[j].embeddingModel =>
      Len(docs[k].embedding) = Len(docs[j].embedding)


----------------------------------------------------------------------------
(* Properties of the EmbeddingAgent (specifications SpecEmbedding, SpecBatch) *)

C16_ErrorCountIsFailures ==
  (embed.pc = "done" /\ embed.type = "batch_embed") =>
    /\ embed.response.data.errorCount = Cardinality(embed.failed)
    /\ embed.response.data.successCount + embed.response.data.errorCount
         = embed.response.data.totalProcessed
    /\ embed.response.success <=>
         (2 * Cardinality(embed.failed) < embed.response.data.totalProcessed)

\* C17: the calls in flight all belong to the batch the loop is at and are
\* at most batchSize; and when batch_embed returns, no call is in flight and
\* embeddings[i] is what the call for texts[i] resolved with (for a failed
\* call, the fallback of texts[i]).
C17_BatchesJoined ==
  /\ Cardinality(embed.inflight) <= embed.batchSize
  /\ embed.inflight \subseteq Batch(embed.texts, embed.i, embed.batchSize)
  /\ (embed.pc = "done" /\ embed.type = "batch_embed") =>
       /\ embed.inflight = {}
       /\ Len(embed.response.data.embeddings) = Len(embed.texts)
       /\ \A k \in 1..Len(embed.texts) :
            /\ [ index |-> k - 1, embedding |-> embed.response.data.embeddings[k] ]
                 \in embed.answers
            /\ (k - 1) \in embed.failed =>
                 embed.response.data.embeddings[k] = GenerateFallbackEmbedding(embed.texts[k])

\* three texts in two batches, the second call of the first batch settling
\* before the first, with different vectors
C17_Witness ==
  /\ embed.pc = "done" /\ embed.type = "batch_embed"
  /\ Len(embed.texts) = 3 /\ embed.batchSize = 2
  /\ embed.order = << 1, 0, 2 >>
  /\ embed.failed = { 2 }
  /\ embed.response.data.embeddings[1] # embed.response.data.embeddings[2]

----------------------------------------------------------------------------
(* Properties of the text functions (specification SpecText) *)

\* where window k of chunks starts if the first starts at 0 and each next
\* one starts overlap characters before the end of the one before
RECURSIVE WindowStart(_, _, _)
WindowStart(chunks, k, overlap) ==
  IF k = 1 THEN 0
  ELSE WindowStart(chunks, k - 1, overlap) + Len(chunks[k - 1].content) - overlap

WindowEnd(chunks, k, overlap) == WindowStart(chunks, k, overlap) + Len(chunks[k].content)

\* C18: the windows of chunkText(text, chunkSize, overlap) are the slices of
\* the text that start at 0, then overlap characters before the end of the
\* window before, and the last one ends at the end of the text; an empty
\* text has no window.
C18_ChunksCoverText ==
  lab.op = "chunkText" =>
    IF lab.text = <<>> THEN lab.chunks = <<>>
    ELSE /\ Len(lab.chunks) >= 1
         /\ \A k \in 1..Len(lab.chunks) :
              /\ Len(lab.chunks[k].content) >= 1
              /\ Len(lab.chunks[k].content) <= lab.chunkSize
              /\ lab.chunks[k].content =
                   SubSeq(lab.text, WindowStart(lab.chunks, k, lab.overlap) + 1,
                          WindowEnd(lab.chunks, k, lab.overlap))
         /\ WindowEnd(lab.chunks, Len(lab.chunks), lab.overlap) = Len(lab.text)

C18_Witness ==
  /\ lab.op = "chunkText"
  /\ Len(lab.chunks) >= 3 /\ lab.overlap >= 1
  /\ Len(lab.chunks[Len(lab.chunks)].content) < lab.chunkSize

\* C20 (as claimed): for the query "how does the retry logic work", a chunk
\* whose extracted function names include retryRequest gets a boosted score
\* at least 0.20 above its cosine.
C20_RetryBoost ==
  (lab.op = "score" /\ lab.query = QRetryLogic
     /\ IsIn(lab.functionNames, <<"r","e","t","r","y","R","e","q","u","e","s","t">>)
     /\ ~IsNaN(lab.cosine)) =>
    lab.similarity >= lab.cosine + Pct(20)

----------------------------------------------------------------------------
(* Properties of generateQueries (specification SpecQueries) *)

\* the original query followed by what the four generators resolved with
AllGenerated == << gen.query >> \o gen.semantic \o gen.technical \o gen.contextual
                  \o gen.structural

\* C19: generate_queries returns success with a list of 1 to 8 strings that
\* starts with the original query and holds no string twice; when the
\* generators resolved, the list is made of their results in the order
\* semantic, technical, contextual, structural, each string at its first
\* occurrence, and a string is left out only behind the eighth.
C19_QueriesWellFormed ==
  gen.pc = "done" =>
    LET data == gen.response.data
    IN  /\ gen.response.success
        /\ Len(data) >= 1 /\ Len(data) <= 8
        /\ data[1] = gen.query
        /\ \A i, j \in 1..Len(data) : i # j => data[i] # data[j]
        /\ gen.path = "try" =>
             /\ \A i \in 1..Len(data) : IsIn(AllGenerated, data[i])
             /\ \A i, j \in 1..Len(data) :
                  i < j => FirstIndex(AllGenerated, data[i]) < FirstIndex(AllGenerated, data[j])
             /\ \A k \in 1..Len(AllGenerated) :
                  \/ IsIn(data, AllGenerated[k])
                  \/ /\ Len(data) = 8
                     /\ FirstIndex(AllGenerated, data[8])
                          < FirstIndex(AllGenerated, AllGenerated[k])

\* a return with a repeated string among the results and a string cut off
C19_Witness ==
  /\ gen.pc = "done" /\ gen.path = "try"
  /\ \E i, j \in 1..Len(AllGenerated) : i < j /\ AllGenerated[i] = AllGenerated[j]
  /\ Len(gen.response.data) = 8
  /\ \E k \in 1..Len(AllGenerated) : ~IsIn(gen.response.data, AllGenerated[k])

----------------------------------------------------------------------------
(* Further properties of the vector store (specification SpecStore) *)

\* C21: searchWithEnhancedQueries returns at most topK results, in
\* non-increasing order of maxSimilarity, and no chunk that passed the
\* threshold but was left out has a higher maxSimilarity than a returned one.
C21_TopKDescending ==
  (search.pc = "done" /\ search.kind = "enhanced") =>
    /\ Len(search.result) = Len(search.sortedResults)
    /\ Len(search.sortedResults) <= search.topK
    /\ \A i, j \in 1..Len(search.sortedResults) :
         i < j => search.sortedResults[i].maxSimilarity >= search.sortedResults[j].maxSimilarity
    /\ \A u \in 1..Len(search.uniqueResults) :
         \/ \E i \in 1..Len(search.sortedResults) :
              search.sortedResults[i].id = search.uniqueResults[u].id
         \/ \A i \in 1..Len(search.sortedResults) :
              search.uniqueResults[u].maxSimilarity <= search.sortedResults[i].maxSimilarity

\* two chunks passed the threshold, the later one scored higher, one is returned
C21_Witness ==
  /\ search.pc = "done" /\ search.kind = "enhanced"
  /\ search.topK = 1 /\ Len(search.uniqueResults) = 2
  /\ search.uniqueResults[2].maxSimilarity > search.uniqueResults[1].maxSimilarity
  /\ Len(search.sortedResults) = 1

----------------------------------------------------------------------------
(* Properties of fetchContext (specification SpecFetch) *)

\* C22 (as claimed): the chunk list a successful fetch_context returns is in
\* non-increasing order of relevanceScore.
C22_ChunksRankedByRelevance ==
  (fetch.pc = "done" /\ fetch.response.success) =>
    \A i, j \in 1..Len(fetch.response.data) :
      i < j => fetch.response.data[i].relevanceScore >= fetch.response.data[j].relevanceScore

\* C25: a fetch_context task over an empty corpus (no uploaded files) returns
\* success with an empty chunk list and confidence 0, and never reaches the
\* search of the vector index (no search is started, the index is not read,
\* no query is embedded).
C25_EmptyCorpusShortCircuits ==
  fetch.uploadedFiles = 0 =>
    /\ fetch.pc # "searching"
    /\ fetch.searchCalls = 0
    /\ fetch.index = <<>> /\ fetch.queryEmbedding = <<>>
    /\ fetch.rawChunks = <<>>
    /\ fetch.pc = "done" =>
         /\ fetch.response.success
         /\ fetch.response.data = <<>>
         /\ fetch.response.confidence = 0

\* a fetch over no files has returned, for two queries
C25_Witness ==
  /\ fetch.pc = "done"
  /\ fetch.uploadedFiles = 0
  /\ Len(fetch.queries) = 2
  /\ fetch.response.success

----------------------------------------------------------------------------
(* Properties of the Verifier on answer texts (specification SpecCode) *)

CodeIssue == "Code examples may have issues"

BlocksOf(names) == Len(SelectSeq(names, LAMBDA p : p # "prose"))
BadBlocksOf(names) == Len(SelectSeq(names, LAMBDA p : p = "bad"))

\* C23 (as claimed): for any answer that contains a code block with
\* unbalanced brackets, the codeValidity confidence is below 0.8 and the
\* issues contain "Code examples may have issues".
C23_UnbalancedAlwaysFlagged ==
  (lab.op = "verified" /\ BadBlocksOf(lab.pieces) >= 1) =>
    /\ lab.codeValidity < Pct(80)
    /\ IsIn(lab.issues, CodeIssue)

\* C23 (amended): for an answer with an unbalanced code block the
\* codeValidity confidence is max(valid/total, 0.3), below 1; when fewer than
\* 70% of its code blocks are valid (always so with at most three blocks) it
\* is below 0.7 and the issues contain "Code examples may have issues".
C23_UnbalancedLowersConfidence ==
  (lab.op = "verified" /\ BadBlocksOf(lab.pieces) >= 1) =>
    LET total == BlocksOf(lab.pieces)
        valid == total - BadBlocksOf(lab.pieces)
    IN  /\ lab.codeValidity = Max2(Frac(valid, total), Pct(30))
        /\ lab.codeValidity < Scale
        /\ (10 * valid < 7 * total) =>
             lab.codeValidity < Pct(70) /\ IsIn(lab.issues, CodeIssue)
        /\ total <= 3 => IsIn(lab.issues, CodeIssue)

\* the answer of the scenario: one block, "function f() { return 1;"
C23_Witness ==
  /\ lab.op = "verified"
  /\ lab.pieces = << "bad" >>
  /\ lab.codeValidity = Pct(30)
  /\ IsIn(lab.issues, CodeIssue)

----------------------------------------------------------------------------
(* Properties of the Verifier's confidences (specification SpecVerify) *)

Components ==
  { lab.relevance, lab.accuracy, lab.completeness, lab.codeValidity, lab.consistency }

----------------------------------------------------------------------------
(* Properties of the Planner (specification SpecPlan) *)

\* C26: the plan has requiresVerification = true exactly when the complexity
\* is above 0.8; the priority is 'high' when the debugging intent matched or
\* the complexity is above 0.8, else 'medium' when the implementation intent
\* matched, else 'low'.
C26_VerificationAndPriority ==
  lab.op = "analyzeAndPlan" =>
    /\ lab.plan.complexity = lab.estimatedComplexity
    /\ lab.plan.requiresVerification <=> (lab.plan.complexity > Pct(80))
    /\ (IsIn(lab.types, "debugging") \/ lab.plan.complexity > Pct(80))
         => lab.priority = "high"
    /\ (~IsIn(lab.types, "debugging") /\ lab.plan.complexity <= Pct(80)) =>
         /\ IsIn(lab.types, "implementation") => lab.priority = "medium"
         /\ ~IsIn(lab.types, "implementation") => lab.priority = "low"

\* a plan of complexity above 0.8 for a query without the debugging intent
C26_Witness ==
  /\ lab.op = "analyzeAndPlan"
  /\ ~IsIn(lab.types, "debugging")
  /\ lab.plan.complexity = Pct(90)
  /\ lab.plan.requiresVerification
  /\ lab.priority = "high"

----------------------------------------------------------------------------
(* Properties of the chunking loop (specification SpecLoop) *)

\* every window so far is non-empty and at most chunkSize long, every window
\* starts after the one before it, and the loop has not used more iterations
\* than the text has characters
WindowsAdvance ==
  lab.op \in {"chunking", "returned"} =>
    /\ \A k \in 1..Len(lab.chunks) :
         /\ Len(lab.chunks[k].content) >= 1
         /\ Len(lab.chunks[k].content) <= lab.chunkSize
    /\ \A k \in 1..(Len(lab.chunks) - 1) : lab.chunks[k].start < lab.chunks[k + 1].start
    /\ Len(lab.chunks) <= Len(lab.text)
    /\ lab.op = "returned" =>
         [ k \in 1..Len(lab.chunks) |-> lab.chunks[k].content ]
           = [ k \in 1..Len(lab.chunks) |->
                 ChunkWith(lab.text, 0, lab.chunkSize, lab.overlap)[k].content ]

\* C27: for 0 <= overlap < chunkSize, chunkText terminates on every text;
\* every window is non-empty and at most chunkSize long, and the window start
\* strictly increases from one iteration to the next.
C27_ChunkingTerminates ==
  /\ [] WindowsAdvance
  /\ (lab.op = "chunking") ~> (lab.op = "returned")

\* a call with overlap that returned after several windows
C27_Witness ==
  /\ lab.op = "returned"
  /\ lab.overlap = 3 /\ lab.chunkSize = 4
  /\ Len(lab.chunks) = 7

----------------------------------------------------------------------------
(* A further property of the orchestrator (specification Spec) *)

\* C28 (as claimed): whenever the generation endpoint answers the request of
\* answer_question, the Synthesizer returns success = true with the generated
\* text as data, for an empty and for a non-empty context list.
C28_SynthesizerReturnsReply ==
  (answer.done /\ qaEndpoint \in {"ok", "empty"}) =>
    /\ answer.success
    /\ answer.data = (IF qaEndpoint = "ok" THEN "draft answer" ELSE "")

----------------------------------------------------------------------------
(* A property of re-ingestion (specification SpecReingest) *)

\* C29 (as claimed): after the processFiles calls have finished, every stored
\* chunk's totalChunks equals the number of chunks stored for its file and
\* model, so that no chunk of an earlier, longer version of a file remains
\* next to the windows of its latest content.
C29_IndexHoldsLatestVersion ==
  ingest.pc = "idle" =>
    \A k \in 1..Len(docs) :
      docs[k].metadata.totalChunks =
        Cardinality({ j \in 1..Len(docs) :
                        /\ docs[j].filename = docs[k].filename
                        /\ docs[j].embeddingModel = docs[k].embeddingModel })

----------------------------------------------------------------------------
(* A property of the vector store during an outage (specification SpecOutage) *)

\* the same search over the same index returned the same ranked results
OutageResultsRepeat ==
  \A a, b \in lab.searches :
    (a.query = b.query /\ a.topK = b.topK /\ a.embeddingModel = b.embeddingModel
       /\ a.index = b.index) => a.result = b.result

\* C30 (as claimed): while the endpoint is unavailable, the vector store's
\* own embedding step returns the same vector for the same text and model,
\* and the same search over the same index returns the same ranked results.
C30_OutageSearchRepeatable ==
  lab.op = "outage" =>
    /\ \A a, b \in lab.served :
         (a.text = b.text /\ a.embeddingModel = b.embeddingModel) =>
           a.embedding = b.embedding
    /\ OutageResultsRepeat

====
